---- MODULE Spec2Model ----
(***************************************************************************)
(* Verification model of aro-hcp-intelhub.                                 *)
(*                                                                         *)
(* Three subsystems share the relational store and are checked under three *)
(* specifications over one set of variables:                               *)
(*   SpecDocs   the documentation ingestion (internal/docs/ingester.go)    *)
(*              writing through pgDocumentBatchWriter, and SearchDocs;     *)
(*   SpecPR     the two-phase PR ingestion (Generator.RunCache/RunProcess);*)
(*   SpecTrace  the cache-aware image tracer service.                      *)
(* Each specification leaves the variables of the other two at their       *)
(* initial value.                                                          *)
(***************************************************************************)
EXTENDS Integers, Sequences, FiniteSets, TLC

(***************************************************************************)
(* Bounds of the model.                                                    *)
(***************************************************************************)
NRepos   == 2      \* repositories that docs ingestion is run for
NWriters == 2      \* ingestions that may be in flight at the same time
NCommits == 2      \* refs an ingestion can resolve to
NFiles   == 2      \* files selected per repository
MaxRuns  == 2      \* ingestion runs started in one behaviour

Repos   == 1..NRepos
Writers == 1..NWriters
Commits == 1..NCommits
Files   == 1..NFiles

VARIABLES
  \* ---- store: table documents (committed rows only)
  documents,
  \* ---- one database transaction per batch writer
  txState,      \* "none" | "active" | "aborted" | "committed" | "rolledback"
  txSnap,       \* rows the running DELETE statement selected at its start
  txDel,        \* rows deleted (and row-locked) by the open transaction
  txIns,        \* rows inserted into documents by the open transaction
  \* ---- pgDocumentBatchWriter fields
  wRepo, count, committed, rolledBack,
  staged,       \* rows of documents_temp: the chunks accepted by Add
  \* ---- Ingester.ingestRepoAtomic, one activation per writer
  pc, wRef, pos,
  failed,       \* history: some step of this run reported an error
  runs,         \* ingestion runs started so far
  applied,      \* history: [repo, docs] of every transaction that committed
  lastSearch    \* what the latest SearchDocs call returned

docsVars == <<documents, txState, txSnap, txDel, txIns, wRepo, count,
              committed, rolledBack, staged, pc, wRef, pos, failed, runs,
              applied, lastSearch>>

VARIABLES
  \* ---- source hosting service: closed PRs of the repository, newest first
  upstream,
  \* ---- store: table pr_embeddings, keyed by pr_number
  prRows,
  \* ---- ingestion.Config / SearchRepository options of the running process
  cfg,
  \* ---- Generator.RunProcess in progress
  procPc,       \* "idle" | "embed" | "analyze"
  procQueue,    \* PRs of the batch not yet handled, in store order
  cur,          \* locals of processSinglePR for the PR being handled
  \* ---- history of the PR pipeline
  lastCache,    \* the latest RunCache call and what it did
  lastProc,     \* the latest processSinglePR call and what it did
  stale,        \* a RunCache call that overlaps other runs: what it fetched
  batch,        \* the latest RunProcess call: its batch and the PRs handled
  prSteps       \* pipeline runs and upstream changes so far

prVars == <<upstream, prRows, cfg, procPc, procQueue, cur, lastCache, stale,
            lastProc, batch, prSteps>>

VARIABLES
  \* ---- store: table trace_image_cache, keyed by (commit_sha, environment)
  traceCache,
  TraceCacheMax,  \* SearchRepository.TraceCacheMax of the running process
  now,            \* the database clock behind inserted_at
  pending,        \* TraceImages calls whose trace is running, per key
  lastCall        \* history: the latest TraceImages call that returned

traceVars == <<traceCache, TraceCacheMax, now, pending, lastCall>>

VARIABLES
  \* ---- one pgDocumentBatchWriter in the hands of an arbitrary caller
  bw,           \* its fields, the state of its transaction and documents_temp
  bwCall,       \* history: the latest call on it and what it returned
  bwCalls       \* calls made so far

writerVars == <<bw, bwCall, bwCalls>>

VARIABLES
  \* ---- the diff analyzer's clone and the process-wide guard of its setup
  originFetch,             \* prFetchSpec lines under remote.origin.fetch
  configureFetchSpecOnce,  \* sync.Once: "new" | "running" | "done"
  ensPc,                   \* where each caller of ensurePRFetchSpec is
  ensRet,                  \* history: what each caller's latest call returned
  ensCalls                 \* calls of ensurePRFetchSpec so far

fetchSpecVars == <<originFetch, configureFetchSpecOnce, ensPc, ensRet, ensCalls>>

VARIABLES
  \* ---- one Runner.Git call and the git process it started
  gitProc,      \* "none" | "running" | "killed" (signalled, not gone) | "exited"
  gitExit,      \* how the process ended: "ok" | "fail" | "signal"
  gitCtx,       \* the call's context is done
  gitCtxKill,   \* exec.CommandContext has killed the process for the context
  gitTimer,     \* time.After(r.Timeout) has fired
  done,         \* the channel done: empty, or the result of c.Wait()
  gitPc,        \* "idle" | "select" | "kill" | "drain"
  gitCase,      \* the case the select statement proceeds with
  gitRet,       \* history: what the latest call returned, and when
  gitRuns       \* calls so far

gitVars == <<gitProc, gitExit, gitCtx, gitCtxKill, gitTimer, done, gitPc,
             gitCase, gitRet, gitRuns>>

VARIABLES
  \* ---- the retrieval tools search_prs and search_docs
  lastTool,     \* history: the latest tool call and its result
  embedCalls,   \* EmbedTexts calls made for queries so far
  \* ---- the tool get_pr_details
  lastDetails,  \* history: the latest call, its result and its store lookup
  lookups       \* GetPRByNumber calls so far

searchVars == <<lastTool, embedCalls, lastDetails, lookups>>

VARIABLES
  \* ---- the walk of ingestRepoAtomic over the parts of one file
  parts,        \* Chunker.Split of the file: "text" and "blank" pieces
  MaxChunksCfg, \* Ingester.MaxChunks of the run, 0 for no limit
  partPc,       \* "idle", "parts", "commit", "stored" or "failed"
  partTx,       \* the writer's transaction: "active" or "aborted"
  partIdx,      \* idx of the range loop over parts, 0-based
  added,        \* chunk_index of the chunks Add accepted, in Add order
  fileChunks    \* chunk_index values of the file's rows in documents

chunkVars == <<parts, MaxChunksCfg, partPc, partTx, partIdx, added, fileChunks>>

VARIABLES
  \* ---- the diff analyzer
  lastAnalysis  \* history: the latest Analyze call and the Analysis returned

analyzeVars == <<lastAnalysis>>

VARIABLES
  \* ---- the worktrees of Tracer.Trace
  wtPc,         \* where Trace is: "idle", "ensure", ..., "restore", "returned"
  wtCtx,        \* the caller's context: "live" or "cancelled"
  wtDir,        \* checkoutDir of the trace under way, 0 before MkdirTemp
  worktrees,    \* the directories git has registered as worktrees
  tmpDirs,      \* the checkout directories on disk
  wtLast,       \* history: what the trace created and how its removal went
  wtRuns        \* Trace calls so far

worktreeVars == <<wtPc, wtCtx, wtDir, worktrees, tmpDirs, wtLast, wtRuns>>

VARIABLES
  \* ---- the documents of the diff analyzer
  lastBuild     \* history: the latest buildDocuments call and its documents

documentVars == <<lastBuild>>

VARIABLES
  \* ---- the schema of the database under dbctl
  dbTables,     \* each table: "absent", "empty" or "rows"
  dbApplied,    \* the migrations recorded as applied in the migration table
  dbLast        \* history: the latest dbctl command and how it ended

dbctlVars == <<dbTables, dbApplied, dbLast>>

vars == <<docsVars, prVars, traceVars, writerVars, fetchSpecVars, gitVars,
          searchVars,
          chunkVars,
          analyzeVars,
          worktreeVars,
          documentVars,
          dbctlVars>>

\* What the actions of one part of the program leave alone.
othersOfDocs == <<prVars, traceVars, writerVars, fetchSpecVars, gitVars, searchVars, chunkVars, analyzeVars, worktreeVars, documentVars, dbctlVars>>
othersOfPR == <<docsVars, traceVars, writerVars, fetchSpecVars, gitVars, searchVars, chunkVars, analyzeVars, worktreeVars, documentVars, dbctlVars>>
othersOfTrace == <<docsVars, prVars, writerVars, fetchSpecVars, gitVars, searchVars, chunkVars, analyzeVars, worktreeVars, documentVars, dbctlVars>>
othersOfWriter == <<prVars, traceVars, fetchSpecVars, gitVars, searchVars, chunkVars, analyzeVars, worktreeVars, documentVars, dbctlVars>>
othersOfFetchSpec == <<docsVars, prVars, traceVars, writerVars, gitVars, searchVars, chunkVars, analyzeVars, worktreeVars, documentVars, dbctlVars>>
othersOfGit == <<docsVars, prVars, traceVars, writerVars, fetchSpecVars, searchVars, chunkVars, analyzeVars, worktreeVars, documentVars, dbctlVars>>
othersOfSearch == <<docsVars, prVars, traceVars, writerVars, fetchSpecVars, gitVars, chunkVars, analyzeVars, worktreeVars, documentVars, dbctlVars>>
othersOfDbctl == <<docsVars, prVars, traceVars, writerVars, fetchSpecVars, gitVars, searchVars, chunkVars, analyzeVars, worktreeVars, documentVars>>
othersOfDocuments == <<docsVars, prVars, traceVars, writerVars, fetchSpecVars, gitVars, searchVars, chunkVars, analyzeVars, worktreeVars, dbctlVars>>
othersOfWorktree == <<docsVars, prVars, traceVars, writerVars, fetchSpecVars, gitVars, searchVars, chunkVars, analyzeVars, documentVars, dbctlVars>>
othersOfAnalyze == <<docsVars, prVars, traceVars, writerVars, fetchSpecVars, gitVars, searchVars, chunkVars, worktreeVars, documentVars, dbctlVars>>
othersOfChunks == <<docsVars, prVars, traceVars, writerVars, fetchSpecVars, gitVars, searchVars, analyzeVars, worktreeVars, documentVars, dbctlVars>>

(***************************************************************************)
(* Documentation ingestion.                                                *)
(***************************************************************************)

\* MaxChunks of the Ingester: 0 means no limit.
MaxChunks == 0

\* sha256Hex over "repo:path:ref:idx:part"; the hash is taken to be
\* injective, so the id is the tuple of the hashed fields.
sha256Hex(r, p, ref, idx, part) == <<r, p, ref, idx, part>>

\* The content of file p at a ref, already split into its parts by the
\* chunker (one non-blank part per file).
Split(ref, p) == <<p>>

\* The db.DocumentChunk that ingestRepoAtomic builds for part idx of file p.
DocumentChunk(r, p, ref, idx, part) ==
  [id |-> sha256Hex(r, p, ref, idx, part), repo |-> r, path |-> p,
   commit_sha |-> ref, chunk_index |-> idx]

\* Rows of documents with repo = r, as a statement that runs now sees them.
DocsOf(r) == {d \in documents : d.repo = r}

\* The store before any modelled run: every repository was ingested once at
\* an earlier ref 0.
InitDocs == {DocumentChunk(r, p, 0, 0, Split(0, p)[1]) : r \in Repos, p \in Files}

NoSearch == [repo |-> 0, result |-> {}, during |-> {}]

InitDocsVars ==
  /\ documents = InitDocs
  /\ txState = [w \in Writers |-> "none"]
  /\ txSnap = [w \in Writers |-> {}]
  /\ txDel = [w \in Writers |-> {}]
  /\ txIns = [w \in Writers |-> {}]
  /\ wRepo = [w \in Writers |-> 0]
  /\ count = [w \in Writers |-> 0]
  /\ committed = [w \in Writers |-> FALSE]
  /\ rolledBack = [w \in Writers |-> FALSE]
  /\ staged = [w \in Writers |-> {}]
  /\ pc = [w \in Writers |-> "idle"]
  /\ wRef = [w \in Writers |-> 0]
  /\ pos = [w \in Writers |-> <<0, 0>>]
  /\ failed = [w \in Writers |-> FALSE]
  /\ runs = 0
  /\ applied = {}
  /\ lastSearch = NoSearch

\* Transactions other than w's that are still open.
OtherOpen(w) == {o \in Writers \ {w} : txState[o] \in {"active", "aborted"}}

\* tx.Rollback(): ends the transaction, dropping its locks, its uncommitted
\* rows and (ON COMMIT DROP / session end of the statement) its temp table.
TxRollback(w) ==
  /\ txState' = [txState EXCEPT ![w] =
        IF @ \in {"active", "aborted"} THEN "rolledback" ELSE @]
  /\ txSnap' = [txSnap EXCEPT ![w] = {}]
  /\ txDel' = [txDel EXCEPT ![w] = {}]
  /\ txIns' = [txIns EXCEPT ![w] = {}]

\* ingestRepoAtomic starts: NewDocumentBatchWriter -> newPGDocumentBatchWriter
\* begins a transaction with the default options and creates documents_temp.
NewDocumentBatchWriter(w, r, ref) ==
  /\ pc[w] \in {"idle", "done"}
  /\ runs < MaxRuns
  /\ runs' = runs + 1
  /\ txState' = [txState EXCEPT ![w] = "active"]
  /\ txSnap' = [txSnap EXCEPT ![w] = {}]
  /\ txDel' = [txDel EXCEPT ![w] = {}]
  /\ txIns' = [txIns EXCEPT ![w] = {}]
  /\ wRepo' = [wRepo EXCEPT ![w] = r]
  /\ count' = [count EXCEPT ![w] = 0]
  /\ committed' = [committed EXCEPT ![w] = FALSE]
  /\ rolledBack' = [rolledBack EXCEPT ![w] = FALSE]
  /\ staged' = [staged EXCEPT ![w] = {}]
  /\ wRef' = [wRef EXCEPT ![w] = ref]
  /\ pos' = [pos EXCEPT ![w] = <<1, 0>>]
  /\ failed' = [failed EXCEPT ![w] = FALSE]
  /\ pc' = [pc EXCEPT ![w] = "list"]
  /\ UNCHANGED <<documents, applied, lastSearch>>
  /\ UNCHANGED othersOfDocs

\* repo.HeadSHA / repo.ListFiles succeed: the file loop starts.
ListFilesOk(w) ==
  /\ pc[w] = "list"
  /\ pc' = [pc EXCEPT ![w] = "files"]
  /\ UNCHANGED <<documents, txState, txSnap, txDel, txIns, wRepo, count,
                 committed, rolledBack, staged, wRef, pos, failed, runs,
                 applied, lastSearch>>
  /\ UNCHANGED othersOfDocs

\* repo.HeadSHA or repo.ListFiles fails: ingestRepoAtomic returns the error
\* and the deferred Rollback runs.
ListFilesErr(w) ==
  /\ pc[w] = "list"
  /\ failed' = [failed EXCEPT ![w] = TRUE]
  /\ pc' = [pc EXCEPT ![w] = "deferred"]
  /\ UNCHANGED <<documents, txState, txSnap, txDel, txIns, wRepo, count,
                 committed, rolledBack, staged, wRef, pos, runs,
                 applied, lastSearch>>
  /\ UNCHANGED othersOfDocs

AtFile(w) == pc[w] = "files" /\ pos[w][2] = 0
AtPart(w) == pc[w] = "files" /\ pos[w][2] > 0
LimitReached(w) == MaxChunks > 0 /\ count[w] >= MaxChunks

\* The file loop ends (no file left, or the MaxChunks break): Commit is next.
FilesDone(w) ==
  /\ AtFile(w)
  /\ pos[w][1] > NFiles \/ LimitReached(w)
  /\ pc' = [pc EXCEPT ![w] = "commit"]
  /\ UNCHANGED <<documents, txState, txSnap, txDel, txIns, wRepo, count,
                 committed, rolledBack, staged, wRef, pos, failed, runs,
                 applied, lastSearch>>
  /\ UNCHANGED othersOfDocs

\* repo.ShowFile succeeds: the parts of the file are walked.
ShowFileOk(w) ==
  /\ AtFile(w)
  /\ pos[w][1] <= NFiles /\ ~LimitReached(w)
  /\ pos' = [pos EXCEPT ![w] = <<@[1], 1>>]
  /\ UNCHANGED <<documents, txState, txSnap, txDel, txIns, wRepo, count,
                 committed, rolledBack, staged, pc, wRef, failed, runs,
                 applied, lastSearch>>
  /\ UNCHANGED othersOfDocs

\* repo.ShowFile fails: `continue`, the file is skipped.
ShowFileErr(w) ==
  /\ AtFile(w)
  /\ pos[w][1] <= NFiles /\ ~LimitReached(w)
  /\ pos' = [pos EXCEPT ![w] = <<@[1] + 1, 0>>]
  /\ failed' = [failed EXCEPT ![w] = TRUE]
  /\ UNCHANGED <<documents, txState, txSnap, txDel, txIns, wRepo, count,
                 committed, rolledBack, staged, pc, wRef, runs,
                 applied, lastSearch>>
  /\ UNCHANGED othersOfDocs

PartsAt(w) == Split(wRef[w], pos[w][1])

\* The part loop of one file ends (no part left, or the MaxChunks break).
PartsDone(w) ==
  /\ AtPart(w)
  /\ pos[w][2] > Len(PartsAt(w)) \/ LimitReached(w)
  /\ pos' = [pos EXCEPT ![w] = <<@[1] + 1, 0>>]
  /\ UNCHANGED <<documents, txState, txSnap, txDel, txIns, wRepo, count,
                 committed, rolledBack, staged, pc, wRef, failed, runs,
                 applied, lastSearch>>
  /\ UNCHANGED othersOfDocs

CanEmbed(w) ==
  /\ AtPart(w)
  /\ pos[w][2] <= Len(PartsAt(w)) /\ ~LimitReached(w)

\* Client.EmbedTexts fails for the part: `continue`, the part is skipped.
EmbedErr(w) ==
  /\ CanEmbed(w)
  /\ pos' = [pos EXCEPT ![w] = <<@[1], @[2] + 1>>]
  /\ failed' = [failed EXCEPT ![w] = TRUE]
  /\ UNCHANGED <<documents, txState, txSnap, txDel, txIns, wRepo, count,
                 committed, rolledBack, staged, pc, wRef, runs,
                 applied, lastSearch>>
  /\ UNCHANGED othersOfDocs

\* The chunk built for the part the loop is at (chunk_index is the 0-based
\* index of the part in the Split result).
CurrentDoc(w) ==
  DocumentChunk(wRepo[w], pos[w][1], wRef[w], pos[w][2] - 1,
                PartsAt(w)[pos[w][2]])

\* pgDocumentBatchWriter.Add accepts the chunk: INSERT into documents_temp.
AddOk(w) ==
  /\ CanEmbed(w)
  /\ ~committed[w] /\ ~rolledBack[w]
  /\ txState[w] = "active"
  /\ CurrentDoc(w) \notin staged[w]
  /\ staged' = [staged EXCEPT ![w] = @ \cup {CurrentDoc(w)}]
  /\ count' = [count EXCEPT ![w] = @ + 1]
  /\ pos' = [pos EXCEPT ![w] = <<@[1], @[2] + 1>>]
  /\ UNCHANGED <<documents, txState, txSnap, txDel, txIns, wRepo,
                 committed, rolledBack, pc, wRef, failed, runs,
                 applied, lastSearch>>
  /\ UNCHANGED othersOfDocs

\* Add returns an error (the INSERT fails; a failed statement aborts the
\* PostgreSQL transaction): `continue`, the loop goes on.
AddErr(w) ==
  /\ CanEmbed(w)
  /\ txState' = [txState EXCEPT ![w] = IF @ = "active" THEN "aborted" ELSE @]
  /\ pos' = [pos EXCEPT ![w] = <<@[1], @[2] + 1>>]
  /\ failed' = [failed EXCEPT ![w] = TRUE]
  /\ UNCHANGED <<documents, txSnap, txDel, txIns, wRepo, count,
                 committed, rolledBack, staged, pc, wRef, runs,
                 applied, lastSearch>>
  /\ UNCHANGED othersOfDocs

\* The ingester's data of a run after w's transaction has ended or moved on.
IngestUnchanged == UNCHANGED <<wRepo, count, staged, wRef, pos, runs>>

\* Commit on an aborted transaction: its first statement (the DELETE) is
\* refused, Commit rolls back and returns the error.
CommitOnAborted(w) ==
  /\ pc[w] = "commit"
  /\ ~committed[w] /\ ~rolledBack[w]
  /\ txState[w] = "aborted"
  /\ TxRollback(w)
  /\ failed' = [failed EXCEPT ![w] = TRUE]
  /\ pc' = [pc EXCEPT ![w] = "deferred"]
  /\ IngestUnchanged
  /\ UNCHANGED <<documents, committed, rolledBack, applied, lastSearch>>
  /\ UNCHANGED othersOfDocs

\* Commit, statement 1 starts: DELETE FROM documents WHERE repo = w.repo.
\* The transaction runs at the default isolation level (BeginTx(ctx, nil):
\* READ COMMITTED), so the statement selects its target rows from the rows
\* committed when it starts.
CommitDeleteStart(w) ==
  /\ pc[w] = "commit"
  /\ ~committed[w] /\ ~rolledBack[w]
  /\ txState[w] = "active"
  /\ txSnap' = [txSnap EXCEPT ![w] = DocsOf(wRepo[w])]
  /\ pc' = [pc EXCEPT ![w] = "commit_delete"]
  /\ IngestUnchanged
  /\ UNCHANGED <<documents, txState, txDel, txIns, committed, rolledBack,
                 failed, applied, lastSearch>>
  /\ UNCHANGED othersOfDocs

\* Statement 1 completes.  It waits while a target row is locked by another
\* open transaction; a target row that a transaction committed meanwhile
\* has deleted is skipped, and rows committed after the statement started
\* are not among its targets.
CommitDeleteFinish(w) ==
  /\ pc[w] = "commit_delete"
  /\ \A o \in OtherOpen(w) : txDel[o] \cap txSnap[w] \cap documents = {}
  /\ txDel' = [txDel EXCEPT ![w] = txSnap[w] \cap documents]
  /\ txSnap' = [txSnap EXCEPT ![w] = {}]
  /\ pc' = [pc EXCEPT ![w] = "commit_insert"]
  /\ IngestUnchanged
  /\ UNCHANGED <<documents, txState, txIns, committed, rolledBack,
                 failed, applied, lastSearch>>
  /\ UNCHANGED othersOfDocs

\* Statement 1 fails (connection lost, context cancelled): Commit rolls
\* back and returns the error.
CommitDeleteErr(w) ==
  /\ pc[w] = "commit_delete"
  /\ TxRollback(w)
  /\ failed' = [failed EXCEPT ![w] = TRUE]
  /\ pc' = [pc EXCEPT ![w] = "deferred"]
  /\ IngestUnchanged
  /\ UNCHANGED <<documents, committed, rolledBack, applied, lastSearch>>
  /\ UNCHANGED othersOfDocs

\* Rows of documents whose id a row of w's temp table would collide with.
UniqueViolation(w) == staged[w] \cap (documents \ txDel[w])

\* Statement 2 has to wait: another open transaction has inserted or
\* deleted, and not yet committed, a row with an id that w inserts.
InsertBlocked(w) ==
  \E o \in OtherOpen(w) : staged[w] \cap (txIns[o] \cup txDel[o]) # {}

\* Commit, statement 2: INSERT INTO documents SELECT * FROM documents_temp.
CommitInsertOk(w) ==
  /\ pc[w] = "commit_insert"
  /\ ~InsertBlocked(w)
  /\ UniqueViolation(w) = {}
  /\ txIns' = [txIns EXCEPT ![w] = staged[w]]
  /\ pc' = [pc EXCEPT ![w] = "commit_tx"]
  /\ IngestUnchanged
  /\ UNCHANGED <<documents, txState, txSnap, txDel, committed, rolledBack,
                 failed, applied, lastSearch>>
  /\ UNCHANGED othersOfDocs

\* Statement 2 fails on the primary key of documents: Commit rolls back and
\* returns the error.
CommitInsertErr(w) ==
  /\ pc[w] = "commit_insert"
  /\ ~InsertBlocked(w)
  /\ UniqueViolation(w) # {}
  /\ TxRollback(w)
  /\ failed' = [failed EXCEPT ![w] = TRUE]
  /\ pc' = [pc EXCEPT ![w] = "deferred"]
  /\ IngestUnchanged
  /\ UNCHANGED <<documents, committed, rolledBack, applied, lastSearch>>
  /\ UNCHANGED othersOfDocs

\* The effect of a transaction commit on the table: the deleted rows go and
\* the inserted rows appear, in one step.
CommitEffect(docs, del, ins) == (docs \ del) \cup ins

\* Commit, tx.Commit() takes effect in the database.
CommitTxOk(w) ==
  /\ pc[w] = "commit_tx"
  /\ documents' = CommitEffect(documents, txDel[w], txIns[w])
  /\ txState' = [txState EXCEPT ![w] = "committed"]
  /\ txSnap' = [txSnap EXCEPT ![w] = {}]
  /\ txDel' = [txDel EXCEPT ![w] = {}]
  /\ txIns' = [txIns EXCEPT ![w] = {}]
  /\ applied' = applied \cup {[repo |-> wRepo[w], docs |-> staged[w]]}
  /\ pc' = [pc EXCEPT ![w] = "commit_ret"]
  /\ IngestUnchanged
  /\ UNCHANGED <<committed, rolledBack, failed, lastSearch>>
  /\ UNCHANGED othersOfDocs

\* Commit, tx.Commit() has returned nil: w.committed = true, return nil.
CommitReturn(w) ==
  /\ pc[w] = "commit_ret"
  /\ committed' = [committed EXCEPT ![w] = TRUE]
  /\ pc' = [pc EXCEPT ![w] = "deferred"]
  /\ IngestUnchanged
  /\ UNCHANGED <<documents, txState, txSnap, txDel, txIns, rolledBack,
                 failed, applied, lastSearch>>
  /\ UNCHANGED othersOfDocs

\* Commit, tx.Commit() fails: the transaction is over without effect and
\* Commit returns the error, setting neither committed nor rolledBack.
CommitTxErr(w) ==
  /\ pc[w] = "commit_tx"
  /\ TxRollback(w)
  /\ failed' = [failed EXCEPT ![w] = TRUE]
  /\ pc' = [pc EXCEPT ![w] = "deferred"]
  /\ IngestUnchanged
  /\ UNCHANGED <<documents, committed, rolledBack, applied, lastSearch>>
  /\ UNCHANGED othersOfDocs

\* The deferred writer.Rollback() of ingestRepoAtomic.
Rollback(w) ==
  /\ pc[w] = "deferred"
  /\ IF committed[w] \/ rolledBack[w]
       THEN UNCHANGED <<txState, txSnap, txDel, txIns, rolledBack>>
       ELSE /\ TxRollback(w)
            /\ rolledBack' = [rolledBack EXCEPT ![w] = TRUE]
  /\ pc' = [pc EXCEPT ![w] = "done"]
  /\ IngestUnchanged
  /\ UNCHANGED <<documents, committed, failed, applied, lastSearch>>
  /\ UNCHANGED othersOfDocs

\* History: the writers for repository r whose Commit call is in progress.
InCommit(r) ==
  {w \in Writers : wRepo[w] = r /\ pc[w] \in
      {"commit_delete", "commit_insert", "commit_tx", "commit_ret"}}

\* SearchRepository.SearchDocs with the repo filter r: one SELECT, which
\* reads the committed rows.
SearchDocs(r) ==
  /\ lastSearch' = [repo |-> r, result |-> DocsOf(r), during |-> InCommit(r)]
  /\ UNCHANGED <<documents, txState, txSnap, txDel, txIns, wRepo, count,
                 committed, rolledBack, staged, pc, wRef, pos, failed, runs,
                 applied>>
  /\ UNCHANGED othersOfDocs

NextDocs ==
  \/ \E w \in Writers, r \in Repos, ref \in Commits :
        NewDocumentBatchWriter(w, r, ref)
  \/ \E w \in Writers : ListFilesOk(w)
  \/ \E w \in Writers : ListFilesErr(w)
  \/ \E w \in Writers : FilesDone(w)
  \/ \E w \in Writers : ShowFileOk(w)
  \/ \E w \in Writers : ShowFileErr(w)
  \/ \E w \in Writers : PartsDone(w)
  \/ \E w \in Writers : EmbedErr(w)
  \/ \E w \in Writers : AddOk(w)
  \/ \E w \in Writers : AddErr(w)
  \/ \E w \in Writers : CommitOnAborted(w)
  \/ \E w \in Writers : CommitDeleteStart(w)
  \/ \E w \in Writers : CommitDeleteFinish(w)
  \/ \E w \in Writers : CommitDeleteErr(w)
  \/ \E w \in Writers : CommitInsertOk(w)
  \/ \E w \in Writers : CommitInsertErr(w)
  \/ \E w \in Writers : CommitTxOk(w)
  \/ \E w \in Writers : CommitReturn(w)
  \/ \E w \in Writers : CommitTxErr(w)
  \/ \E w \in Writers : Rollback(w)
  \/ \E r \in Repos : SearchDocs(r)

(***************************************************************************)
(* PR ingestion: CACHE and PROCESS.                                        *)
(*                                                                         *)
(* Go strings are sequences of atoms: "" is <<>>, a literal is a one-atom  *)
(* sequence and + is \o.  Texts whose length matters (title, body, rich    *)
(* description) are [id, len] records; s[:n] keeps the id and cuts len.    *)
(* A nil pointer is NULL and a pointer to v is Ptr(v).                     *)
(***************************************************************************)
MaxPR       == 2   \* pull requests that exist upstream: numbers 1..MaxPR
PerPage     == 1   \* ListOptions.PerPage of FetchBatch, scaled down from 100
MaxFetchMax == 1   \* github_fetch_max ranges over 0..MaxFetchMax
MaxBatch    == 1   \* max_process_batch ranges over 0..MaxBatch
MaxPRSteps  == 4   \* CACHE and PROCESS runs started in one behaviour

NULL == <<>>
Ptr(v) == <<v>>
S(atom) == <<atom>>
Text(kind, n, len) == [id |-> <<kind, n>>, len |-> len]
EmptyText == [id |-> <<>>, len |-> 0]

Min(a, b) == IF a < b THEN a ELSE b
MaxOf(set) == CHOOSE m \in set : \A x \in set : x <= m

\* The metadata the hosting service reports for PR n (buildPRChange).  PRs
\* with an even number have a body longer than the 2000 characters that
\* BuildDocument keeps.
PRTitle(n) == Text("title", n, 20)
PRBody(n) == Text("body", n, IF n % 2 = 0 THEN 2500 ELSE 100)
MergedAt(n) == n

\* s[:n] when len(s) > n, else s.
Truncate(s, n) == IF s.len > n THEN [s EXCEPT !.len = n] ELSE s

\* embeddings.BuildDocument
BuildDocument(prTitle, prBody, richDescription) ==
  [title |-> prTitle,
   description |-> Truncate(prBody, 2000),
   analysis |-> IF richDescription # EmptyText
                  THEN Ptr(Truncate(richDescription, 3000)) ELSE NULL]

\* The vector the embedding model returns for a text.
Embed(document) == [vec |-> document]

\* strPtr without the address-of: every string becomes nil.
strPtr_m(s) == NULL

\* strPtr of generator.go: nil for the empty string.
strPtr(s) == IF s = <<>> THEN NULL ELSE Ptr(s)

\* GetFailureDetails that leaves the category of an ordinary error empty.
GetFailureDetails_m(err) ==
  IF err.deadline
    THEN [reason |-> S("timeout: ") \o err.msg, category |-> S("timeout")]
    ELSE [reason |-> IF err.msg = <<>> THEN S("unknown failure") ELSE err.msg,
          category |-> <<>>]

\* diff.GetFailureDetails for a non-nil error [msg, deadline]: deadline says
\* errors.Is(err, context.DeadlineExceeded).
GetFailureDetails(err) ==
  IF err.deadline
    THEN [reason |-> S("timeout: ") \o err.msg, category |-> S("timeout")]
    ELSE [reason |-> IF err.msg = <<>> THEN S("unknown failure") ELSE err.msg,
          category |-> S("error")]

\* The errors Client.EmbedTexts returns: always wrapped "create embedding: %w".
EmbedErrors ==
  {[msg |-> S("create embedding: ") \o S("embedding call timed out"),
    deadline |-> TRUE],
   [msg |-> S("create embedding: ") \o S("connection refused"),
    deadline |-> FALSE]}

\* What Analyzer.Analyze returns for PR n when the analyzer is enabled (its
\* error result is always nil).
AnalysisOutcomes(n) ==
  {[RichDescription |-> EmptyText, AnalysisSuccessful |-> FALSE,
    FailureReason |-> S("git fetch origin: failed"), FailureCategory |-> <<>>],
   [RichDescription |-> EmptyText, AnalysisSuccessful |-> FALSE,
    FailureReason |-> S("large diff detected"),
    FailureCategory |-> S("large_diff")],
   [RichDescription |-> EmptyText, AnalysisSuccessful |-> FALSE,
    FailureReason |-> S("timeout: ") \o S("map stage"),
    FailureCategory |-> S("timeout")],
   [RichDescription |-> Text("rich", n, 500), AnalysisSuccessful |-> TRUE,
    FailureReason |-> <<>>, FailureCategory |-> <<>>],
   [RichDescription |-> Text("rich", n, 3500), AnalysisSuccessful |-> TRUE,
    FailureReason |-> <<>>, FailureCategory |-> <<>>]}

\* The record cachePRs stores for PR n: metadata only, unprocessed.
PREmbedding(n) ==
  [pr_number |-> n, pr_title |-> PRTitle(n), pr_body |-> PRBody(n),
   merged_at |-> MergedAt(n), embedding |-> NULL, rich_description |-> NULL,
   analysis_successful |-> FALSE, failure_reason |-> NULL,
   failure_category |-> NULL, processed_at |-> NULL]

\* SearchRepository.HasPR
HasPR(rows, n) == n \in DOMAIN rows

\* StorePR as an upsert: on conflict the stored row is overwritten.
StorePR_m(rows, rec) ==
  [n \in DOMAIN rows \cup {rec.pr_number} |->
     IF n = rec.pr_number THEN rec ELSE rows[n]]

\* SearchRepository.StorePR: INSERT ... ON CONFLICT (pr_number) DO NOTHING
StorePR(rows, rec) ==
  IF rec.pr_number \in DOMAIN rows THEN rows
  ELSE [n \in DOMAIN rows \cup {rec.pr_number} |->
          IF n = rec.pr_number THEN rec ELSE rows[n]]

\* SearchRepository.UpdatePRProcessing: one UPDATE ... WHERE pr_number = n
UpdatePRProcessing(rows, n, embedding, richDesc, ok, reason, category) ==
  [m \in DOMAIN rows |->
     IF m = n
       THEN [rows[m] EXCEPT !.embedding = embedding,
                            !.rich_description = richDesc,
                            !.analysis_successful = ok,
                            !.failure_reason = reason,
                            !.failure_category = category,
                            !.processed_at = Ptr("now")]
       ELSE rows[m]]

\* GitHubFetcher.FetchBatch on the list `up` of closed PRs, newest first.
FetchBatch(up, page) ==
  LET pg == IF page <= 0 THEN 1 ELSE page
      first == (pg - 1) * PerPage + 1
      last == Min(pg * PerPage, Len(up))
      prs == IF first > Len(up) THEN <<>> ELSE SubSeq(up, first, last)
      merged == SelectSeq(prs, LAMBDA e : e.merged)
      next == IF pg * PerPage < Len(up) THEN pg + 1 ELSE 0
  IN [PRs |-> [i \in 1..Len(merged) |-> merged[i].num],
      NextPage |-> next, HasMore |-> next # 0, PageCount |-> Len(prs)]

\* The inner loop of fetchNewPRs that skips a cached PR where the code stops
\* at it.
RECURSIVE ScanPage_m(_, _, _, _, _)
ScanPage_m(prs, i, newPRs, rows, fetchMax) ==
  IF i > Len(prs) THEN [newPRs |-> newPRs, reachedCached |-> FALSE]
  ELSE IF Len(newPRs) >= fetchMax
    THEN [newPRs |-> newPRs, reachedCached |-> FALSE]
  ELSE IF HasPR(rows, prs[i])
    THEN ScanPage_m(prs, i + 1, newPRs, rows, fetchMax)
  ELSE ScanPage_m(prs, i + 1, Append(newPRs, prs[i]), rows, fetchMax)

\* The inner loop of fetchNewPRs over the PRs of one page, from index i.
RECURSIVE ScanPage(_, _, _, _, _)
ScanPage(prs, i, newPRs, rows, fetchMax) ==
  IF i > Len(prs) THEN [newPRs |-> newPRs, reachedCached |-> FALSE]
  ELSE IF Len(newPRs) >= fetchMax
    THEN [newPRs |-> newPRs, reachedCached |-> FALSE]
  ELSE IF HasPR(rows, prs[i])
    THEN [newPRs |-> newPRs, reachedCached |-> TRUE]
  ELSE ScanPage(prs, i + 1, Append(newPRs, prs[i]), rows, fetchMax)

\* The page loop of fetchNewPRs that goes on to the next page after it has
\* reached a cached PR.
RECURSIVE FetchLoop_m(_, _, _, _, _)
FetchLoop_m(up, rows, fetchMax, currentPage, newPRs) ==
  IF ~(Len(newPRs) < fetchMax)
    THEN [newPRs |-> newPRs, pages |-> 0, stop |-> "cap"]
  ELSE LET result == FetchBatch(up, currentPage) IN
    IF result.PageCount = 0
      THEN [newPRs |-> newPRs, pages |-> 1, stop |-> "empty"]
    ELSE LET scan == ScanPage(result.PRs, 1, newPRs, rows, fetchMax) IN
      IF Len(scan.newPRs) >= fetchMax \/ ~result.HasMore
        THEN [newPRs |-> scan.newPRs, pages |-> 1,
              stop |-> IF Len(scan.newPRs) >= fetchMax THEN "cap"
                       ELSE "nomore"]
        ELSE LET rest == FetchLoop_m(up, rows, fetchMax, result.NextPage,
                                     scan.newPRs)
             IN [rest EXCEPT !.pages = @ + 1]

\* Generator.fetchNewPRs, from page currentPage on: the PRs collected, the
\* number of FetchBatch calls made and the exit the loop took.
RECURSIVE FetchLoop(_, _, _, _, _)
FetchLoop(up, rows, fetchMax, currentPage, newPRs) ==
  IF ~(Len(newPRs) < fetchMax)
    THEN [newPRs |-> newPRs, pages |-> 0, stop |-> "cap"]
  ELSE LET result == FetchBatch(up, currentPage) IN
    IF result.PageCount = 0
      THEN [newPRs |-> newPRs, pages |-> 1, stop |-> "empty"]
    ELSE LET scan == ScanPage(result.PRs, 1, newPRs, rows, fetchMax) IN
      IF Len(scan.newPRs) >= fetchMax \/ scan.reachedCached \/ ~result.HasMore
        THEN [newPRs |-> scan.newPRs, pages |-> 1,
              stop |-> IF Len(scan.newPRs) >= fetchMax THEN "cap"
                       ELSE IF scan.reachedCached THEN "cached"
                       ELSE "nomore"]
        ELSE LET rest == FetchLoop(up, rows, fetchMax, result.NextPage,
                                   scan.newPRs)
             IN [rest EXCEPT !.pages = @ + 1]

fetchNewPRs(up, rows, fetchMax) == FetchLoop(up, rows, fetchMax, 1, <<>>).newPRs

\* Generator.cachePRs over the first k PRs of the list.
RECURSIVE cachePRs(_, _, _)
cachePRs(rows, prs, k) ==
  IF k = 0 THEN rows
  ELSE StorePR(cachePRs(rows, prs, k - 1), PREmbedding(prs[k]))

\* Numbers of a set in descending order (ORDER BY merged_at DESC).
RECURSIVE SortDesc(_)
SortDesc(set) ==
  IF set = {} THEN <<>>
  ELSE LET m == MaxOf(set) IN <<m>> \o SortDesc(set \ {m})

\* The WHERE clause shared by GetUnprocessedPRs and CountUnprocessedPRs.
Unprocessed(rows, retryFailed) ==
  {n \in DOMAIN rows :
     IF retryFailed
       THEN rows[n].processed_at = NULL \/ rows[n].analysis_successful = FALSE
       ELSE rows[n].processed_at = NULL}

\* SearchRepository.GetUnprocessedPRs
GetUnprocessedPRs(rows, retryFailed, limit) ==
  LET lim == IF limit <= 0 THEN 100 ELSE limit
      all == SortDesc(Unprocessed(rows, retryFailed))
  IN SubSeq(all, 1, Min(lim, Len(all)))

\* SearchRepository.CountUnprocessedPRs
CountUnprocessedPRs(rows, retryFailed) ==
  Cardinality(Unprocessed(rows, retryFailed))

NoCacheRun ==
  [ok |-> FALSE, upstream |-> <<>>, inserted |-> {}, capped |-> FALSE,
   again |-> FALSE, prevCapped |-> FALSE, before |-> {}, found |-> <<>>,
   pages |-> 0, stop |-> "none"]

NoCur ==
  [embedding |-> NULL, richDescription |-> NULL, analysisSuccessful |-> FALSE,
   failureReason |-> NULL, failureCategory |-> NULL]

NoProc == [pr |-> 0, calls |-> <<>>, document |-> NULL]

NoStale == [state |-> "none", prs |-> <<>>, hit |-> {}]

NoBatch == [prs |-> <<>>, attempted |-> <<>>, failed |-> {}]

InitPRVars ==
  /\ upstream = <<>>
  /\ prRows = <<>>
  /\ cfg \in [GitHubFetchMax : 0..MaxFetchMax, MaxProcessBatch : 0..MaxBatch,
              retryFailed : BOOLEAN, DiffEnabled : BOOLEAN]
  /\ procPc = "idle"
  /\ procQueue = <<>>
  /\ cur = NoCur
  /\ lastCache = NoCacheRun
  /\ lastProc = NoProc
  /\ stale = NoStale
  /\ batch = NoBatch
  /\ prSteps = 0

\* A PR is closed upstream, merged or not: it heads the listing, which is
\* sorted by update time, newest first.
NewUpstreamPR(m) ==
  /\ Len(upstream) < MaxPR
  /\ upstream' = <<[num |-> Len(upstream) + 1, merged |-> m]>> \o upstream
  /\ UNCHANGED <<prRows, cfg, procPc, procQueue, cur, lastCache, lastProc,
                 prSteps>>
  /\ UNCHANGED <<stale, batch, othersOfPR>>

\* History record of a RunCache call that found newPRs and left rowsAfter.
CacheRun(ok, newPRs, rowsAfter) ==
  [ok |-> ok, upstream |-> upstream,
   inserted |-> DOMAIN rowsAfter \ DOMAIN prRows,
   capped |-> /\ Len(newPRs) >= cfg.GitHubFetchMax
              /\ \E i \in 1..Len(upstream) :
                   upstream[i].merged /\ upstream[i].num \notin DOMAIN rowsAfter,
   again |-> lastCache.ok /\ lastCache.upstream = upstream,
   prevCapped |-> lastCache.ok /\ lastCache.capped,
   before |-> DOMAIN prRows, found |-> newPRs,
   pages |-> IF ok \/ newPRs # <<>>
               THEN FetchLoop(upstream, prRows, cfg.GitHubFetchMax,
                              1, <<>>).pages ELSE 0,
   stop |-> IF ok \/ newPRs # <<>>
              THEN FetchLoop(upstream, prRows, cfg.GitHubFetchMax,
                             1, <<>>).stop ELSE "none"]

\* Generator.RunCache returns nil: fetchNewPRs, then cachePRs stores all.
RunCacheOk ==
  /\ prSteps < MaxPRSteps
  /\ LET newPRs == fetchNewPRs(upstream, prRows, cfg.GitHubFetchMax)
         rowsAfter == cachePRs(prRows, newPRs, Len(newPRs))
     IN /\ prRows' = rowsAfter
        /\ lastCache' = CacheRun(TRUE, newPRs, rowsAfter)
  /\ prSteps' = prSteps + 1
  /\ UNCHANGED <<upstream, cfg, procPc, procQueue, cur, lastProc>>
  /\ UNCHANGED <<stale, batch, othersOfPR>>

\* RunCache returns the error of FetchBatch or HasPR: nothing is stored.
RunCacheFetchErr ==
  /\ prSteps < MaxPRSteps
  /\ lastCache' = CacheRun(FALSE, <<>>, prRows)
  /\ prSteps' = prSteps + 1
  /\ UNCHANGED <<upstream, prRows, cfg, procPc, procQueue, cur, lastProc>>
  /\ UNCHANGED <<stale, batch, othersOfPR>>

\* RunCache returns the error of the k-th StorePR: the PRs before it are
\* stored.
RunCacheStoreErr ==
  /\ prSteps < MaxPRSteps
  /\ LET newPRs == fetchNewPRs(upstream, prRows, cfg.GitHubFetchMax) IN
       \E k \in 1..Len(newPRs) :
         LET rowsAfter == cachePRs(prRows, newPRs, k - 1) IN
           /\ prRows' = rowsAfter
           /\ lastCache' = CacheRun(FALSE, newPRs, rowsAfter)
  /\ prSteps' = prSteps + 1
  /\ UNCHANGED <<upstream, cfg, procPc, procQueue, cur, lastProc>>
  /\ UNCHANGED <<stale, batch, othersOfPR>>

\* A RunCache call that overlaps other runs, first half: fetchNewPRs returns
\* the PRs it found new.
RunCacheFetch ==
  /\ prSteps < MaxPRSteps
  /\ stale.state # "fetched"
  /\ LET newPRs == fetchNewPRs(upstream, prRows, cfg.GitHubFetchMax) IN
       /\ newPRs # <<>>
       /\ stale' = [state |-> "fetched", prs |-> newPRs, hit |-> {}]
  /\ prSteps' = prSteps + 1
  /\ UNCHANGED <<upstream, prRows, cfg, procPc, procQueue, cur, lastCache,
                 lastProc>>
  /\ UNCHANGED <<batch, othersOfPR>>

\* Second half: cachePRs calls StorePR for each of them, whatever other runs
\* have stored and processed in between.
RunCacheStore ==
  /\ stale.state = "fetched"
  /\ prRows' = cachePRs(prRows, stale.prs, Len(stale.prs))
  /\ stale' = [stale EXCEPT !.state = "stored",
                 !.hit = {stale.prs[i] : i \in 1..Len(stale.prs)}
                           \cap DOMAIN prRows]
  /\ UNCHANGED <<upstream, cfg, procPc, procQueue, cur, lastCache, lastProc,
                 prSteps>>
  /\ UNCHANGED <<batch, othersOfPR>>

\* Generator.RunProcess up to the loop: the batch is read from the store.
RunProcess ==
  /\ procPc = "idle"
  /\ prSteps < MaxPRSteps
  /\ LET limit == IF cfg.MaxProcessBatch <= 0 THEN cfg.GitHubFetchMax
                  ELSE cfg.MaxProcessBatch
         prs == IF CountUnprocessedPRs(prRows, cfg.retryFailed) = 0 THEN <<>>
                ELSE GetUnprocessedPRs(prRows, cfg.retryFailed, limit)
     IN /\ procQueue' = prs
        /\ procPc' = IF prs = <<>> THEN "idle" ELSE "embed"
        /\ batch' = [NoBatch EXCEPT !.prs = prs]
  /\ prSteps' = prSteps + 1
  /\ UNCHANGED <<upstream, prRows, cfg, cur, lastCache, lastProc>>
  /\ UNCHANGED <<stale, othersOfPR>>

\* RunProcess returns early with the error of CountUnprocessedPRs,
\* GetUnprocessedPRs or NewAnalyzer.
RunProcessErr ==
  /\ procPc = "idle"
  /\ prSteps < MaxPRSteps
  /\ prSteps' = prSteps + 1
  /\ UNCHANGED <<upstream, prRows, cfg, procPc, procQueue, cur, lastCache,
                 lastProc>>
  /\ UNCHANGED <<stale, batch, othersOfPR>>

\* The PR that processSinglePR is handling.
CurPR == Head(procQueue)

\* The text processSinglePR hands to EmbedTexts.
EmbedInput(row) == BuildDocument(row.pr_title, row.pr_body, EmptyText)

\* processSinglePR: EmbedTexts returns a vector.
ProcEmbedOk ==
  /\ procPc = "embed"
  /\ LET document == EmbedInput(prRows[CurPR]) IN
       /\ cur' = [NoCur EXCEPT !.embedding = Ptr(Embed(document))]
       /\ lastProc' = [pr |-> CurPR, calls |-> <<"embed">>,
                       document |-> Ptr(document)]
  /\ procPc' = IF cfg.DiffEnabled THEN "analyze" ELSE "update"
  /\ batch' = [batch EXCEPT !.attempted = Append(@, CurPR)]
  /\ UNCHANGED <<upstream, prRows, cfg, procQueue, lastCache, prSteps>>
  /\ UNCHANGED <<stale, othersOfPR>>

\* The arguments of the UpdatePRProcessing call after a failed embedding.
EmbedFailure(reason, category) ==
  [embedding |-> NULL, richDescription |-> NULL, analysisSuccessful |-> FALSE,
   failureReason |-> strPtr(reason), failureCategory |-> strPtr(category)]

\* processSinglePR: EmbedTexts returns an error.
ProcEmbedErr(err) ==
  /\ procPc = "embed"
  /\ LET d == GetFailureDetails(err) IN
       cur' = EmbedFailure(d.reason, d.category)
  /\ lastProc' = [pr |-> CurPR, calls |-> <<"embed">>,
                  document |-> Ptr(EmbedInput(prRows[CurPR]))]
  /\ procPc' = "update"
  /\ batch' = [batch EXCEPT !.attempted = Append(@, CurPR),
                            !.failed = @ \cup {CurPR}]
  /\ UNCHANGED <<upstream, prRows, cfg, procQueue, lastCache, prSteps>>
  /\ UNCHANGED <<stale, othersOfPR>>

\* processSinglePR: EmbedTexts returns no vector.
ProcEmbedEmpty ==
  /\ procPc = "embed"
  /\ cur' = EmbedFailure(S("embedding returned no vectors"),
                         S("empty_embedding"))
  /\ lastProc' = [pr |-> CurPR, calls |-> <<"embed">>,
                  document |-> Ptr(EmbedInput(prRows[CurPR]))]
  /\ procPc' = "update"
  /\ batch' = [batch EXCEPT !.attempted = Append(@, CurPR),
                            !.failed = @ \cup {CurPR}]
  /\ UNCHANGED <<upstream, prRows, cfg, procQueue, lastCache, prSteps>>
  /\ UNCHANGED <<stale, othersOfPR>>

\* The locals of processSinglePR after a nil-error Analyze result.
AnalysisLocals(locals, analysis) ==
  [locals EXCEPT
     !.analysisSuccessful = analysis.AnalysisSuccessful,
     !.richDescription = IF analysis.RichDescription # EmptyText
                           THEN Ptr(analysis.RichDescription) ELSE NULL,
     !.failureReason = IF analysis.FailureReason # <<>>
                         THEN Ptr(analysis.FailureReason) ELSE NULL,
     !.failureCategory = IF analysis.FailureCategory # <<>>
                           THEN strPtr(analysis.FailureCategory) ELSE NULL]

\* processSinglePR: analyzer.Analyze runs (analyzer != nil) and its result is
\* copied into the locals.
ProcAnalyze ==
  /\ procPc = "analyze"
  /\ \E analysis \in AnalysisOutcomes(CurPR) :
       cur' = AnalysisLocals(cur, analysis)
  /\ lastProc' = [lastProc EXCEPT !.calls = Append(@, "analyze")]
  /\ procPc' = "update"
  /\ batch' = IF cur'.analysisSuccessful THEN batch
              ELSE [batch EXCEPT !.failed = @ \cup {CurPR}]
  /\ UNCHANGED <<upstream, prRows, cfg, procQueue, lastCache, prSteps>>
  /\ UNCHANGED <<stale, othersOfPR>>

\* The loop of RunProcess moves to the next PR of the batch.
NextInBatch ==
  /\ procQueue' = Tail(procQueue)
  /\ procPc' = IF Tail(procQueue) = <<>> THEN "idle" ELSE "embed"
  /\ cur' = NoCur

\* processSinglePR: UpdatePRProcessing writes the row.
ProcUpdateOk ==
  /\ procPc = "update"
  /\ prRows' = UpdatePRProcessing(prRows, CurPR, cur.embedding,
                  cur.richDescription, cur.analysisSuccessful,
                  cur.failureReason, cur.failureCategory)
  /\ lastProc' = [lastProc EXCEPT !.calls = Append(@, "update")]
  /\ NextInBatch
  /\ UNCHANGED <<upstream, cfg, lastCache, prSteps>>
  /\ UNCHANGED <<stale, batch, othersOfPR>>

\* A loop that returns the error of processSinglePR instead of logging it.
ProcUpdateErr_m ==
  /\ procPc = "update"
  /\ procQueue' = <<>>
  /\ procPc' = "idle"
  /\ cur' = NoCur
  /\ batch' = [batch EXCEPT !.failed = @ \cup {CurPR}]
  /\ UNCHANGED <<upstream, prRows, cfg, lastCache, lastProc, prSteps>>
  /\ UNCHANGED <<stale, othersOfPR>>

\* processSinglePR: UpdatePRProcessing fails; the error is logged and the
\* loop continues.
ProcUpdateErr ==
  /\ procPc = "update"
  /\ NextInBatch
  /\ batch' = [batch EXCEPT !.failed = @ \cup {CurPR}]
  /\ UNCHANGED <<upstream, prRows, cfg, lastCache, lastProc, prSteps>>
  /\ UNCHANGED <<stale, othersOfPR>>

NextPR ==
  \/ \E m \in BOOLEAN : NewUpstreamPR(m)
  \/ RunCacheOk
  \/ RunCacheFetchErr
  \/ RunCacheStoreErr
  \/ RunProcess
  \/ RunProcessErr
  \/ ProcEmbedOk
  \/ \E err \in EmbedErrors : ProcEmbedErr(err)
  \/ ProcEmbedEmpty
  \/ ProcAnalyze
  \/ ProcUpdateOk
  \/ ProcUpdateErr

\* The pipeline with a CACHE run that overlaps other runs; the analyzer is
\* left out (it is disabled in this configuration).
NextCacheRace ==
  \/ \E m \in BOOLEAN : NewUpstreamPR(m)
  \/ RunCacheOk
  \/ RunCacheFetch
  \/ RunCacheStore
  \/ RunProcess
  \/ ProcEmbedOk
  \/ \E err \in EmbedErrors : ProcEmbedErr(err)
  \/ ProcEmbedEmpty
  \/ ProcUpdateOk
  \/ ProcUpdateErr

(***************************************************************************)
(* Image tracer with its cache.                                            *)
(***************************************************************************)
NTraceCommits   == 2   \* commits a trace is asked for
NCallers        == 2   \* TraceImages calls that may be in flight together
NComponents     == 1   \* components of imageConfigPaths that are traced
MaxCacheEntries == 1   \* trace_cache_max_entries ranges over 0..MaxCacheEntries
MaxClock        == 2   \* cache writes in one behaviour

TraceCommits == 1..NTraceCommits

\* Environments a caller passes; "qa" is not a key of
\* environmentConfigSources.
Envs == {"int", "qa"}
environmentConfigSources == {"dev", "int", "stg", "prod"}

\* What Tracer.Trace does to the components: each is resolved and inspected,
\* or fails (missing registry/repository, inspection failure).
ComponentRuns == [1..NComponents -> {"ok", "inspect"}]

\* The results Tracer.Trace returns with a nil error, as traceAndBuild
\* copies them into a TraceImagesResponse.
TraceWith(commitSHA, environment, run) ==
  LET msgs == [i \in 1..NComponents |->
                 IF run[i] = "ok" THEN <<>> ELSE <<run[i], i>>]
  IN [CommitSHA |-> commitSHA, Environment |-> environment,
      Components |-> [i \in 1..NComponents |->
                        [Name |-> i,
                         Error |-> IF run[i] = "ok" THEN NULL ELSE Ptr(msgs[i])]],
      Errors |-> SelectSeq(msgs, LAMBDA m : m # <<>>)]

TraceResponses(commitSHA, environment) ==
  {[CommitSHA |-> commitSHA, Environment |-> environment,
    Components |-> <<>>, Errors |-> <<S(why)>>] :
      why \in {"prepare repo", "extract images"}}
  \cup {TraceWith(commitSHA, environment, run) : run \in ComponentRuns}

\* hasErrors that looks at the components only.
hasErrors_m(resp) ==
  \E i \in 1..Len(resp.Components) :
    resp.Components[i].Error # NULL /\ resp.Components[i].Error # Ptr(<<>>)

\* hasErrors of service.go
hasErrors(resp) ==
  \/ Len(resp.Errors) > 0
  \/ \E i \in 1..Len(resp.Components) :
       resp.Components[i].Error # NULL /\ resp.Components[i].Error # Ptr(<<>>)

\* TraceImageCacheUpsert, statement 1: INSERT ... ON CONFLICT (commit_sha,
\* environment) DO UPDATE SET response_json, inserted_at = now().
CacheInsert(cache, key, resp, t) ==
  [k \in DOMAIN cache \cup {key} |->
     IF k = key THEN [Response |-> resp, inserted_at |-> t] ELSE cache[k]]

\* TraceImageCacheUpsert, statement 2: DELETE the rows past the first `max`
\* in ORDER BY inserted_at DESC.
CacheTrim(cache, max) ==
  LET keep == {k \in DOMAIN cache :
                 Cardinality({j \in DOMAIN cache :
                    cache[j].inserted_at > cache[k].inserted_at}) < max}
  IN [k \in keep |-> cache[k]]

\* SearchRepository.TraceImageCacheUpsert when both statements succeed.
TraceImageCacheUpsert(cache, max, key, resp, t) ==
  IF max <= 0 THEN cache
  ELSE CacheTrim(CacheInsert(cache, key, resp, t), max)

\* TraceImageCacheGet that finds no row.
TraceImageCacheGet_m(cache, key) == NULL

\* SearchRepository.TraceImageCacheGet: the entry, or NULL when there is none.
TraceImageCacheGet(cache, key) ==
  IF key \in DOMAIN cache THEN Ptr(cache[key]) ELSE NULL

NoCall ==
  [key |-> <<>>, hit |-> FALSE, traced |-> FALSE, upsert |-> FALSE,
   err |-> FALSE, resp |-> NULL, max |-> 0, prev |-> <<>>]

\* The keys of the cache table: (commit_sha, environment).
Keys == TraceCommits \X Envs

\* Calls of TraceImages in flight (callers have no identity): their number.
RECURSIVE SumPending(_)
SumPending(keys) ==
  IF keys = {} THEN 0
  ELSE LET k == CHOOSE x \in keys : TRUE
       IN pending[k] + SumPending(keys \ {k})

CallerFree == SumPending(Keys) < NCallers

InitTraceVars ==
  /\ traceCache = <<>>
  /\ TraceCacheMax \in 0..MaxCacheEntries
  /\ now = 0
  /\ pending = [k \in Keys |-> 0]
  /\ lastCall = NoCall

\* Service.TraceImages, cache hit: the stored response is returned.
TraceImagesHit(commitSHA, environment) ==
  LET cached == TraceImageCacheGet(traceCache, <<commitSHA, environment>>) IN
  /\ CallerFree
  /\ cached # NULL
  /\ lastCall' = [NoCall EXCEPT !.key = <<commitSHA, environment>>,
                                !.hit = TRUE, !.max = TraceCacheMax,
                                !.resp = Ptr(cached[1].Response),
                                !.prev = IF lastCall.traced /\ ~lastCall.err
                                            /\ lastCall.upsert
                                           THEN lastCall.key ELSE <<>>]
  /\ UNCHANGED <<traceCache, TraceCacheMax, now, pending>>
  /\ UNCHANGED othersOfTrace

\* Service.TraceImages, cache miss: the tracer is invoked.
TraceImagesMiss(commitSHA, environment) ==
  /\ CallerFree
  /\ TraceImageCacheGet(traceCache, <<commitSHA, environment>>) = NULL
  /\ pending' = [pending EXCEPT ![<<commitSHA, environment>>] = @ + 1]
  /\ UNCHANGED <<traceCache, TraceCacheMax, now, lastCall>>
  /\ UNCHANGED othersOfTrace

\* Service.TraceImages: TraceImageCacheGet returns an error other than
\* sql.ErrNoRows, and TraceImages returns it.
TraceLookupFails(commitSHA, environment) ==
  /\ CallerFree
  /\ lastCall # [NoCall EXCEPT !.key = <<commitSHA, environment>>,
                               !.err = TRUE, !.max = TraceCacheMax]
  /\ lastCall' = [NoCall EXCEPT !.key = <<commitSHA, environment>>,
                                !.err = TRUE, !.max = TraceCacheMax]
  /\ UNCHANGED <<traceCache, TraceCacheMax, now, pending>>
  /\ UNCHANGED othersOfTrace

\* A call for key k returns: its history record.
Returned(k, upsert, err, resp) ==
  [NoCall EXCEPT !.key = k, !.traced = TRUE, !.upsert = upsert,
                 !.err = err, !.resp = resp, !.max = TraceCacheMax]

\* Tracer.Trace returns an error (unsupported environment, or the commit
\* cannot be checked out): TraceImages returns it.
TraceFails(k) ==
  /\ pending[k] > 0
  /\ lastCall' = Returned(k, FALSE, TRUE, NULL)
  /\ pending' = [pending EXCEPT ![k] = @ - 1]
  /\ UNCHANGED <<traceCache, TraceCacheMax, now>>
  /\ UNCHANGED othersOfTrace

\* Tracer.Trace returns a result: it is cached unless hasErrors, and returned.
TraceReturns(k) ==
  /\ pending[k] > 0
  /\ k[2] \in environmentConfigSources
  /\ now < MaxClock
  /\ \E resp \in TraceResponses(k[1], k[2]) :
       IF hasErrors(resp)
         THEN /\ lastCall' = Returned(k, FALSE, FALSE, Ptr(resp))
              /\ UNCHANGED <<traceCache, now>>
         ELSE /\ traceCache' = TraceImageCacheUpsert(traceCache, TraceCacheMax,
                                  k, resp, now + 1)
              /\ now' = now + 1
              /\ lastCall' = Returned(k, TRUE, FALSE, Ptr(resp))
  /\ pending' = [pending EXCEPT ![k] = @ - 1]
  /\ UNCHANGED TraceCacheMax
  /\ UNCHANGED othersOfTrace

\* A clean trace, but TraceImageCacheUpsert returns the error of one of its
\* two statements: of the INSERT (nothing is written) or of the trimming
\* DELETE (the inserted row stays).  TraceImages returns the error.
TraceUpsertFails(k, inserted) ==
  /\ pending[k] > 0
  /\ k[2] \in environmentConfigSources
  /\ TraceCacheMax > 0
  /\ now < MaxClock
  /\ \E resp \in TraceResponses(k[1], k[2]) :
       /\ ~hasErrors(resp)
       /\ traceCache' = IF inserted
            THEN CacheInsert(traceCache, k, resp, now + 1)
            ELSE traceCache
  /\ now' = now + 1
  /\ lastCall' = Returned(k, TRUE, TRUE, NULL)
  /\ pending' = [pending EXCEPT ![k] = @ - 1]
  /\ UNCHANGED TraceCacheMax
  /\ UNCHANGED othersOfTrace

NextTrace ==
  \/ \E commitSHA \in TraceCommits, environment \in Envs :
        TraceImagesHit(commitSHA, environment)
  \/ \E commitSHA \in TraceCommits, environment \in Envs :
        TraceImagesMiss(commitSHA, environment)
  \/ \E commitSHA \in TraceCommits, environment \in Envs :
        TraceLookupFails(commitSHA, environment)
  \/ \E k \in Keys : TraceFails(k)
  \/ \E k \in Keys : TraceReturns(k)
  \/ \E k \in Keys, inserted \in BOOLEAN : TraceUpsertFails(k, inserted)

(***************************************************************************)
(* The batch writer as its callers see it: Add, Commit and Rollback, each  *)
(* call taken as a whole, on one writer at a time.                         *)
(***************************************************************************)
MaxWriterCalls == 6   \* calls made on batch writers

\* database/sql.ErrTxDone, returned by a statement on a finished transaction
ErrTxDone == "sql: transaction has already been committed or rolled back"

NoWriter ==
  [id |-> 0, repo |-> 0, count |-> 0, committed |-> FALSE,
   rolledBack |-> FALSE, tx |-> "none", temp |-> {}]

NoWriterCall == [id |-> 0, op |-> "none", before |-> "none", err |-> NULL, changed |-> FALSE]

InitWriterVars ==
  /\ bw = NoWriter
  /\ bwCall = NoWriterCall
  /\ bwCalls = 0

\* The state of the writer's state machine, read from its two flags.
WriterState(w) ==
  IF w.committed THEN "committed"
  ELSE IF w.rolledBack THEN "rolled_back" ELSE "open"

\* A call on the writer returns: the history of the call and the frame.
BwReturns(op, err) ==
  /\ bwCall' = [id |-> bw.id, op |-> op, before |-> WriterState(bw),
                err |-> err, changed |-> documents' # documents]
  /\ bwCalls' = bwCalls + 1
  /\ UNCHANGED <<txState, txSnap, txDel, txIns, wRepo, count, committed,
                 rolledBack, staged, pc, wRef, pos, failed, runs, applied,
                 lastSearch>>
  /\ UNCHANGED othersOfWriter

\* What a statement on the writer's transaction returns when the database
\* does not run it: nil if it runs.
TxRefuses(w, dbFails) ==
  IF w.tx = "done" THEN Ptr(ErrTxDone)
  ELSE IF w.tx = "aborted" THEN Ptr("current transaction is aborted")
  ELSE IF dbFails THEN Ptr("db error") ELSE NULL

\* newPGDocumentBatchWriter: BeginTx and CREATE TEMP TABLE succeed.
BwNew(r) ==
  /\ bwCalls < MaxWriterCalls
  /\ bw.tx \notin {"active", "aborted"}
  /\ bw' = [NoWriter EXCEPT !.id = bw.id + 1, !.repo = r, !.tx = "active"]
  /\ bwCall' = [NoWriterCall EXCEPT !.id = bw.id + 1, !.op = "New"]
  /\ bwCalls' = bwCalls + 1
  /\ UNCHANGED docsVars
  /\ UNCHANGED othersOfWriter

\* pgDocumentBatchWriter.Add of the chunk of file p; the INSERT into
\* documents_temp fails if the database says so or the id is already there.
BwAdd(p, dbFails) ==
  /\ bw.id > 0
  /\ bwCalls < MaxWriterCalls
  /\ UNCHANGED documents
  /\ LET doc == DocumentChunk(bw.repo, p, 1, 0, Split(1, p)[1])
         err == TxRefuses(bw, dbFails \/ doc \in bw.temp)
     IN IF bw.committed
          THEN bw' = bw /\ BwReturns("Add", Ptr("cannot add after commit"))
        ELSE IF bw.rolledBack
          THEN bw' = bw /\ BwReturns("Add", Ptr("cannot add after rollback"))
        ELSE IF err # NULL
          THEN /\ bw' = [bw EXCEPT !.tx = IF @ = "active" THEN "aborted" ELSE @]
               /\ BwReturns("Add", err)
        ELSE /\ bw' = [bw EXCEPT !.temp = @ \cup {doc}, !.count = @ + 1]
             /\ BwReturns("Add", NULL)

\* A Rollback that answers nil on a committed writer.
BwRollback_m(dbFails) ==
  /\ bw.id > 0
  /\ bwCalls < MaxWriterCalls
  /\ UNCHANGED documents
  /\ IF bw.committed \/ bw.rolledBack
       THEN bw' = bw /\ BwReturns("Rollback", NULL)
       ELSE /\ bw' = [bw EXCEPT !.rolledBack = TRUE, !.tx = "done", !.temp = {}]
            /\ BwReturns("Rollback", IF bw.tx = "done" THEN Ptr(ErrTxDone)
                                     ELSE IF dbFails THEN Ptr("db error") ELSE NULL)

\* pgDocumentBatchWriter.Rollback
BwRollback(dbFails) ==
  /\ bw.id > 0
  /\ bwCalls < MaxWriterCalls
  /\ UNCHANGED documents
  /\ IF bw.committed
       THEN bw' = bw /\ BwReturns("Rollback", Ptr("already committed"))
     ELSE IF bw.rolledBack
       THEN bw' = bw /\ BwReturns("Rollback", NULL)
     ELSE /\ bw' = [bw EXCEPT !.rolledBack = TRUE, !.tx = "done", !.temp = {}]
          /\ BwReturns("Rollback", IF bw.tx = "done" THEN Ptr(ErrTxDone)
                                   ELSE IF dbFails THEN Ptr("db error") ELSE NULL)

\* pgDocumentBatchWriter.Commit; failing names the statement the database
\* fails, "none" if it fails none.  A failed DELETE or INSERT is followed by
\* tx.Rollback(), a failed tx.Commit() ends the transaction as well, and
\* none of them touches the flags.
BwCommit(failing) ==
  /\ bw.id > 0
  /\ bwCalls < MaxWriterCalls
  /\ LET err == TxRefuses(bw, failing # "none") IN
       IF bw.committed
         THEN /\ bw' = bw /\ UNCHANGED documents
              /\ BwReturns("Commit", Ptr("already committed"))
       ELSE IF bw.rolledBack
         THEN /\ bw' = bw /\ UNCHANGED documents
              /\ BwReturns("Commit", Ptr("already rolled back"))
       ELSE IF err # NULL
         THEN /\ bw' = [bw EXCEPT !.tx = "done", !.temp = {}]
              /\ UNCHANGED documents
              /\ BwReturns("Commit", err)
       ELSE /\ documents' = CommitEffect(documents, DocsOf(bw.repo), bw.temp)
            /\ bw' = [bw EXCEPT !.committed = TRUE, !.tx = "done", !.temp = {}]
            /\ BwReturns("Commit", NULL)

NextWriter ==
  \/ \E r \in Repos : BwNew(r)
  \/ \E p \in Files, dbFails \in BOOLEAN : BwAdd(p, dbFails)
  \/ \E failing \in {"none", "delete", "insert", "commit"} : BwCommit(failing)
  \/ \E dbFails \in BOOLEAN : BwRollback(dbFails)

(***************************************************************************)
(* The diff analyzer's one-shot setup of the PR fetch specification.       *)
(***************************************************************************)
NEnsCallers == 3   \* goroutines that may call ensurePRFetchSpec
MaxEnsCalls == 5   \* calls of ensurePRFetchSpec

EnsCallers == 1..NEnsCallers

InitFetchSpecVars ==
  /\ originFetch \in {0, 1}
  /\ configureFetchSpecOnce = "new"
  /\ ensPc = [c \in EnsCallers |-> "idle"]
  /\ ensRet = [c \in EnsCallers |-> "none"]
  /\ ensCalls = 0

\* Caller c leaves ensurePRFetchSpec with the value of its own returnErr.
EnsReturns(c, ret) ==
  /\ ensPc' = [ensPc EXCEPT ![c] = "idle"]
  /\ ensRet' = [ensRet EXCEPT ![c] = ret]

\* ensurePRFetchSpec is called: configureFetchSpecOnce.Do runs the function
\* in the first caller, blocks a caller that arrives while it runs, and
\* returns at once (returnErr still nil) when it has run.
OnceDo(c) ==
  /\ ensPc[c] = "idle"
  /\ ensCalls < MaxEnsCalls
  /\ ensCalls' = ensCalls + 1
  /\ IF configureFetchSpecOnce = "new"
       THEN /\ configureFetchSpecOnce' = "running"
            /\ ensPc' = [ensPc EXCEPT ![c] = "probe"]
            /\ UNCHANGED ensRet
     ELSE IF configureFetchSpecOnce = "running"
       THEN /\ ensPc' = [ensPc EXCEPT ![c] = "wait"]
            /\ UNCHANGED <<configureFetchSpecOnce, ensRet>>
     ELSE /\ EnsReturns(c, "nil")
          /\ UNCHANGED configureFetchSpecOnce
  /\ UNCHANGED originFetch
  /\ UNCHANGED othersOfFetchSpec

\* git config --local --get-all remote.origin.fetch: the function returns if
\* the command succeeds and its output contains prFetchSpec, and goes on to
\* add it otherwise.
ProbeFetchSpec(c, probeFails) ==
  /\ ensPc[c] = "probe"
  /\ IF ~probeFails /\ originFetch > 0
       THEN /\ configureFetchSpecOnce' = "done"
            /\ EnsReturns(c, "nil")
       ELSE /\ ensPc' = [ensPc EXCEPT ![c] = "add"]
            /\ UNCHANGED <<configureFetchSpecOnce, ensRet>>
  /\ UNCHANGED <<originFetch, ensCalls>>
  /\ UNCHANGED othersOfFetchSpec

\* git config --local --add remote.origin.fetch prFetchSpec succeeds.
AddFetchSpecOk(c) ==
  /\ ensPc[c] = "add"
  /\ originFetch' = originFetch + 1
  /\ configureFetchSpecOnce' = "done"
  /\ EnsReturns(c, "nil")
  /\ UNCHANGED ensCalls
  /\ UNCHANGED othersOfFetchSpec

\* git config --add fails: returnErr = err, and the Once is done all the same.
AddFetchSpecErr(c) ==
  /\ ensPc[c] = "add"
  /\ configureFetchSpecOnce' = "done"
  /\ EnsReturns(c, "err")
  /\ UNCHANGED <<originFetch, ensCalls>>
  /\ UNCHANGED othersOfFetchSpec

\* A caller blocked in Do resumes when the function has run; its own
\* returnErr is nil.
OnceWaitEnds(c) ==
  /\ ensPc[c] = "wait"
  /\ configureFetchSpecOnce = "done"
  /\ EnsReturns(c, "nil")
  /\ UNCHANGED <<originFetch, configureFetchSpecOnce, ensCalls>>
  /\ UNCHANGED othersOfFetchSpec

NextFetchSpec ==
  \/ \E c \in EnsCallers : OnceDo(c)
  \/ \E c \in EnsCallers, probeFails \in BOOLEAN : ProbeFetchSpec(c, probeFails)
  \/ \E c \in EnsCallers : AddFetchSpecOk(c)
  \/ \E c \in EnsCallers : AddFetchSpecErr(c)
  \/ \E c \in EnsCallers : OnceWaitEnds(c)

(***************************************************************************)
(* gitrepo.Runner.Git: one git command under a timeout and a context.      *)
(* A select statement that is blocked proceeds with the case whose channel *)
(* becomes ready first.                                                    *)
(***************************************************************************)
MaxGitRuns == 2   \* calls of Runner.Git

\* Runner.Timeout as gitrepo.New sets it: 2 * time.Minute, in seconds.
Timeout == 120

\* An error value: its text, and the duration the text is formatted with.
Cause(text) == [text |-> text, arg |-> 0]

\* formatGitError: "git <args>: <cause>"
formatGitError(cause) == [cmd |-> "git", cause |-> cause]

\* A timeout reported as the plain failure of the command.
formatGitTimeoutError_m(timeout) == formatGitError(Cause("signal: killed"))

\* formatGitTimeoutError
formatGitTimeoutError(timeout) ==
  formatGitError([text |-> "command timed out after", arg |-> timeout])

\* formatGitContextError
formatGitContextError(cause) ==
  formatGitError(IF cause = NULL THEN Cause("context canceled") ELSE cause[1])

NoGitCall ==
  [kind |-> "none", msg |-> NULL, proc |-> "none", tripped |-> {}, by |-> "none"]

InitGitVars ==
  /\ gitProc = "none"
  /\ gitExit = "none"
  /\ gitCtx = FALSE
  /\ gitCtxKill = FALSE
  /\ gitTimer = FALSE
  /\ done = <<>>
  /\ gitPc = "idle"
  /\ gitCase = "none"
  /\ gitRet = NoGitCall
  /\ gitRuns = 0

\* Runner.Git returns: the history of the call.
GitReturns(kind, msg) ==
  /\ gitRet' = [gitRet EXCEPT !.kind = kind, !.msg = msg, !.proc = gitProc,
                              !.by = gitCase]
  /\ gitPc' = "idle"

\* Runner.Git up to the select statement.  c.Start() fails if the context
\* is done already or the process cannot be started; otherwise the process
\* runs, a goroutine waits for it and the caller blocks in select.
GitStart(start) ==
  /\ gitPc = "idle"
  /\ gitRuns < MaxGitRuns
  /\ gitRuns' = gitRuns + 1
  /\ gitExit' = "none"
  /\ gitCtx' = (start = "ctx")
  /\ gitCtxKill' = FALSE
  /\ gitTimer' = FALSE
  /\ done' = <<>>
  /\ gitCase' = "none"
  /\ IF start = "run"
       THEN /\ gitProc' = "running"
            /\ gitPc' = "select"
            /\ gitRet' = [NoGitCall EXCEPT !.kind = "pending"]
       ELSE /\ gitProc' = "none"
            /\ gitPc' = "idle"
            /\ gitRet' = [NoGitCall EXCEPT
                 !.kind = "error",
                 !.msg = Ptr(formatGitError(IF start = "ctx"
                                              THEN Cause("context canceled")
                                              ELSE Cause("exec: not found")))]
  /\ UNCHANGED othersOfGit

\* What the blocked select statement proceeds with when a channel becomes
\* ready: the first one to do so.
Wakes(case) == IF gitPc = "select" /\ gitCase = "none" THEN case ELSE gitCase

\* What has tripped while the command was running.
Trips(what) ==
  IF gitProc = "running" THEN [gitRet EXCEPT !.tripped = @ \cup {what}] ELSE gitRet

\* The git process ends by itself.
ProcExits(ok) ==
  /\ gitProc = "running"
  /\ gitProc' = "exited"
  /\ gitExit' = IF ok THEN "ok" ELSE "fail"
  /\ UNCHANGED <<gitCtx, gitCtxKill, gitTimer, done, gitPc, gitCase, gitRet, gitRuns>>
  /\ UNCHANGED othersOfGit

\* A process that was sent SIGKILL is gone.
ProcDies ==
  /\ gitProc = "killed"
  /\ gitProc' = "exited"
  /\ gitExit' = "signal"
  /\ UNCHANGED <<gitCtx, gitCtxKill, gitTimer, done, gitPc, gitCase, gitRet, gitRuns>>
  /\ UNCHANGED othersOfGit

\* go func() { done <- c.Wait() }(): Wait returns once the process is gone.
WaitReturns ==
  /\ gitPc # "idle"
  /\ gitProc = "exited"
  /\ done = <<>>
  /\ done' = <<IF gitExit = "ok" THEN NULL
               ELSE IF gitExit = "fail" THEN Ptr(Cause("exit status 1"))
               ELSE Ptr(Cause("signal: killed"))>>
  /\ gitCase' = Wakes("done")
  /\ UNCHANGED <<gitProc, gitExit, gitCtx, gitCtxKill, gitTimer, gitPc, gitRet, gitRuns>>
  /\ UNCHANGED othersOfGit

\* time.After(r.Timeout) fires.
TimerFires ==
  /\ gitPc # "idle"
  /\ ~gitTimer
  /\ gitTimer' = TRUE
  /\ gitCase' = Wakes("timeout")
  /\ gitRet' = Trips("timeout")
  /\ UNCHANGED <<gitProc, gitExit, gitCtx, gitCtxKill, done, gitPc, gitRuns>>
  /\ UNCHANGED othersOfGit

\* The context of the call is cancelled: ctx.Done() is closed.
CtxCancelled ==
  /\ gitPc # "idle"
  /\ ~gitCtx
  /\ gitCtx' = TRUE
  /\ gitCase' = Wakes("ctx")
  /\ gitRet' = Trips("cancel")
  /\ UNCHANGED <<gitProc, gitExit, gitCtxKill, gitTimer, done, gitPc, gitRuns>>
  /\ UNCHANGED othersOfGit

\* exec.CommandContext kills the process once the context is done.
ExecKills ==
  /\ gitCtx /\ ~gitCtxKill
  /\ gitProc = "running"
  /\ gitProc' = "killed"
  /\ gitCtxKill' = TRUE
  /\ UNCHANGED <<gitExit, gitCtx, gitTimer, done, gitPc, gitCase, gitRet, gitRuns>>
  /\ UNCHANGED othersOfGit

\* case err := <-done: the command has ended by itself or failed.
SelectDone ==
  /\ gitPc = "select"
  /\ gitCase = "done"
  /\ IF done[1] = NULL THEN GitReturns("ok", NULL)
     ELSE GitReturns("error", Ptr(formatGitError(done[1][1])))
  /\ done' = <<>>
  /\ UNCHANGED <<gitProc, gitExit, gitCtx, gitCtxKill, gitTimer, gitCase, gitRuns>>
  /\ UNCHANGED othersOfGit

\* case <-time.After(r.Timeout) and case <-ctx.Done(): c.Process.Kill()
SelectKill ==
  /\ gitPc = "select"
  /\ gitCase \in {"timeout", "ctx"}
  /\ gitProc' = IF gitProc = "running" THEN "killed" ELSE gitProc
  /\ gitPc' = "drain"
  /\ UNCHANGED <<gitExit, gitCtx, gitCtxKill, gitTimer, done, gitCase, gitRet, gitRuns>>
  /\ UNCHANGED othersOfGit

\* <-done after the kill, then the error of the case is returned.
SelectDrain ==
  /\ gitPc = "drain"
  /\ done # <<>>
  /\ done' = <<>>
  /\ IF gitCase = "timeout"
       THEN GitReturns("error", Ptr(formatGitTimeoutError(Timeout)))
       ELSE GitReturns("error", Ptr(formatGitContextError(Ptr(Cause("context canceled")))))
  /\ UNCHANGED <<gitProc, gitExit, gitCtx, gitCtxKill, gitTimer, gitCase, gitRuns>>
  /\ UNCHANGED othersOfGit

NextGit ==
  \/ \E start \in {"run", "ctx", "fail"} : GitStart(start)
  \/ \E ok \in BOOLEAN : ProcExits(ok)
  \/ ProcDies
  \/ WaitReturns
  \/ TimerFires
  \/ CtxCancelled
  \/ ExecKills
  \/ SelectDone
  \/ SelectKill
  \/ SelectDrain

(***************************************************************************)
(* The retrieval tools search_prs and search_docs.  A query is a sequence  *)
(* of characters, " " standing for white space.                            *)
(***************************************************************************)
MaxQueryLen    == 2   \* characters of a query
MaxEmbedCalls  == 4   \* EmbedTexts calls made for queries

RECURSIVE Strings(_)
Strings(n) ==
  IF n = 0 THEN {<<>>}
  ELSE Strings(n - 1) \cup {Append(q, c) : q \in Strings(n - 1), c \in {" ", "a"}}

Queries == Strings(MaxQueryLen)

\* strings.TrimSpace
RECURSIVE TrimSpace(_)
TrimSpace(str) ==
  IF str = <<>> THEN str
  ELSE IF Head(str) = " " THEN TrimSpace(Tail(str))
  ELSE IF str[Len(str)] = " " THEN TrimSpace(SubSeq(str, 1, Len(str) - 1))
  ELSE str

\* What the embedding backend and the store do for a query that reaches
\* them: an embedding error, no vector, a store error, or rows.
Backends == {"embed_err", "no_vectors", "search_err", "no_rows", "rows"}

\* DBSearchService.SearchPRs and DBSearchService.SearchDocs, which differ in
\* the store query only: the result, and whether EmbedTexts was called.
DBSearch(query, backend) ==
  IF TrimSpace(query) = <<>>
    THEN [kind |-> "list", items |-> <<>>, embedded |-> FALSE]
  ELSE IF backend = "embed_err" \/ backend = "search_err"
    THEN [kind |-> "error", items |-> <<>>, embedded |-> TRUE]
  ELSE [kind |-> "list", items |-> IF backend = "rows" THEN <<1>> ELSE <<>>,
        embedded |-> TRUE]

\* mcp.NewToolResultError("query parameter is required")
QueryRequired == [kind |-> "tool_error", items |-> <<>>, embedded |-> FALSE]

NoTool == [tool |-> "none", query |-> <<>>, result |-> QueryRequired]

InitSearchVars ==
  /\ lastTool = NoTool
  /\ embedCalls = 0
  /\ lastDetails = [arg |-> [type |-> "none", halves |-> 0], kind |-> "none", msg |-> "", lookup |-> FALSE, number |-> 0]
  /\ lookups = 0

\* A tool call returns: its history, and the count of embedding calls.
ToolReturns(tool, query, result) ==
  /\ embedCalls + (IF result.embedded THEN 1 ELSE 0) <= MaxEmbedCalls
  /\ embedCalls' = embedCalls + (IF result.embedded THEN 1 ELSE 0)
  /\ lastTool' = [tool |-> tool, query |-> query, result |-> result]
  /\ lastTool' # lastTool \/ embedCalls' # embedCalls
  /\ UNCHANGED <<lastDetails, lookups>>
  /\ UNCHANGED othersOfSearch

\* SearchPRsHandler.ToolAdapter: the tool search_prs
SearchPRsHandler(query, backend) ==
  ToolReturns("search_prs", query,
              IF query = <<>> THEN QueryRequired ELSE DBSearch(query, backend))

\* SearchDocsHandler.ToolAdapter: the tool search_docs
SearchDocsHandler(query, backend) ==
  ToolReturns("search_docs", query,
              IF TrimSpace(query) = <<>> THEN QueryRequired
              ELSE DBSearch(query, backend))

NextSearch ==
  \/ \E query \in Queries, backend \in Backends : SearchPRsHandler(query, backend)
  \/ \E query \in Queries, backend \in Backends : SearchDocsHandler(query, backend)

(***************************************************************************)
(* The tool get_pr_details.  The argument pr_number arrives as a Go value: *)
(* a float64 (what a JSON number decodes to), an int, or something else.   *)
(* Its numeric value is counted in halves, so 3 halves is 1.5.             *)
(***************************************************************************)
MaxArg     == 2   \* pr_number arguments range over -MaxArg..MaxArg
MaxLookups == 4   \* GetPRByNumber calls

PRNumberArgs ==
  [type : {"float64"}, halves : (0 - 2 * MaxArg)..(2 * MaxArg)]
  \cup [type : {"int"}, halves : {2 * n : n \in (0 - MaxArg)..MaxArg}]
  \cup [type : {"string", "missing"}, halves : {0}]

\* The value of the argument is zero or negative.
NotPositive(arg) == arg.type \in {"float64", "int"} /\ arg.halves <= 0

\* int(v) of a float64 that is not negative: the fraction is dropped.
IntOf(halves) == halves \div 2

\* parseIntArgument of utils.go
parseIntArgument(arg) ==
  IF arg.type = "float64"
    THEN IF arg.halves < 0
           THEN [err |-> "pr_number must be positive", n |-> 0]
           ELSE [err |-> "", n |-> IntOf(arg.halves)]
  ELSE IF arg.type = "int"
    THEN IF arg.halves <= 0
           THEN [err |-> "pr_number must be positive", n |-> 0]
           ELSE [err |-> "", n |-> IntOf(arg.halves)]
  ELSE [err |-> "pr_number must be provided", n |-> 0]

\* GetPRDetailsHandler.ToolAdapter: the tool get_pr_details; store is what
\* GetPRByNumber does if it is reached.
GetPRDetailsHandler(arg, store) ==
  LET parsed == parseIntArgument(arg) IN
    /\ IF parsed.err # ""
         THEN /\ lastDetails' = [arg |-> arg, kind |-> "tool_error",
                                 msg |-> parsed.err, lookup |-> FALSE, number |-> 0]
              /\ UNCHANGED lookups
         ELSE /\ lookups < MaxLookups
              /\ lookups' = lookups + 1
              /\ lastDetails' = [arg |-> arg,
                                 kind |-> IF store = "err" THEN "error" ELSE "result",
                                 msg |-> store, lookup |-> TRUE, number |-> parsed.n]
    /\ lastDetails' # lastDetails \/ lookups' # lookups
    /\ UNCHANGED <<lastTool, embedCalls>>
    /\ UNCHANGED othersOfSearch

NextDetails ==
  \E arg \in PRNumberArgs, store \in {"found", "no_rows", "err"} :
     GetPRDetailsHandler(arg, store)

(***************************************************************************)
(* The walk of ingestRepoAtomic over the parts of one file (ingester.go    *)
(* lines 83-127), with a chunker that returns several parts.  The file is  *)
(* the first one selected, so writer.Count() is the number of its chunks   *)
(* that Add accepted.                                                      *)
(***************************************************************************)
MaxParts == 3
MaxChunkLimit == 2

\* What Chunker.Split may return: a non-empty sequence of pieces, each one
\* blank (only white space) or not.
PartSeqs == UNION {[1..n -> {"text", "blank"}] : n \in 1..MaxParts}

InitChunkVars ==
  /\ parts = <<>>
  /\ MaxChunksCfg = 0
  /\ partPc = "idle"
  /\ partTx = "active"
  /\ partIdx = 0
  /\ added = <<>>
  /\ fileChunks = <<0>>

\* `i.MaxChunks > 0 && writer.Count() >= i.MaxChunks`
PartLimitReached == MaxChunksCfg > 0 /\ Len(added) >= MaxChunksCfg

AtNextPart == partPc = "parts" /\ partIdx < Len(parts)

\* A run opens its writer, repo.ShowFile succeeds and the chunker splits
\* the content.
SplitFileOk(ps, m) ==
  /\ partPc \in {"idle", "stored", "failed"}
  /\ parts' = ps
  /\ MaxChunksCfg' = m
  /\ partPc' = "parts"
  /\ partTx' = "active"
  /\ partIdx' = 0
  /\ added' = <<>>
  /\ UNCHANGED fileChunks
  /\ UNCHANGED othersOfChunks

\* repo.ShowFile fails: `continue`, the file contributes no chunk.
SplitFileErr(m) ==
  /\ partPc \in {"idle", "stored", "failed"}
  /\ parts' = <<>>
  /\ MaxChunksCfg' = m
  /\ partPc' = "commit"
  /\ partTx' = "active"
  /\ partIdx' = 0
  /\ added' = <<>>
  /\ UNCHANGED fileChunks
  /\ UNCHANGED othersOfChunks

\* `if strings.TrimSpace(part) == "" { continue }`
PartBlank ==
  /\ AtNextPart
  /\ parts[partIdx + 1] = "blank"
  /\ partIdx' = partIdx + 1
  /\ UNCHANGED <<parts, MaxChunksCfg, partPc, partTx, added, fileChunks>>
  /\ UNCHANGED othersOfChunks

\* The limit is reached at a part that is not blank: `break`.
PartLimit ==
  /\ AtNextPart
  /\ parts[partIdx + 1] # "blank"
  /\ PartLimitReached
  /\ partPc' = "commit"
  /\ UNCHANGED <<parts, MaxChunksCfg, partTx, partIdx, added, fileChunks>>
  /\ UNCHANGED othersOfChunks

CanEmbedPart ==
  /\ AtNextPart
  /\ parts[partIdx + 1] # "blank"
  /\ ~PartLimitReached

\* Client.EmbedTexts fails: `continue`.
PartEmbedErr ==
  /\ CanEmbedPart
  /\ partIdx' = partIdx + 1
  /\ UNCHANGED <<parts, MaxChunksCfg, partPc, partTx, added, fileChunks>>
  /\ UNCHANGED othersOfChunks

\* The chunk is built with `ChunkIndex: idx` and Add accepts it.
PartAddOk ==
  /\ CanEmbedPart
  /\ partTx = "active"
  /\ added' = Append(added, partIdx)
  /\ partIdx' = partIdx + 1
  /\ UNCHANGED <<parts, MaxChunksCfg, partPc, partTx, fileChunks>>
  /\ UNCHANGED othersOfChunks

\* Add returns an error (the failed INSERT aborts the transaction):
\* `continue`.
PartAddErr ==
  /\ CanEmbedPart
  /\ partTx' = "aborted"
  /\ partIdx' = partIdx + 1
  /\ UNCHANGED <<parts, MaxChunksCfg, partPc, added, fileChunks>>
  /\ UNCHANGED othersOfChunks

\* The range loop is over.
PartsEnd ==
  /\ partPc = "parts"
  /\ partIdx = Len(parts)
  /\ partPc' = "commit"
  /\ UNCHANGED <<parts, MaxChunksCfg, partTx, partIdx, added, fileChunks>>
  /\ UNCHANGED othersOfChunks

\* writer.Commit swaps the rows of the repository: the file's rows are the
\* accepted chunks.
PartsCommitOk ==
  /\ partPc = "commit"
  /\ partTx = "active"
  /\ fileChunks' = added
  /\ partPc' = "stored"
  /\ UNCHANGED <<parts, MaxChunksCfg, partTx, partIdx, added>>
  /\ UNCHANGED othersOfChunks

\* writer.Commit fails (always so in an aborted transaction); the deferred
\* Rollback leaves documents as it was.
PartsCommitErr ==
  /\ partPc = "commit"
  /\ partPc' = "failed"
  /\ UNCHANGED <<parts, MaxChunksCfg, partTx, partIdx, added, fileChunks>>
  /\ UNCHANGED othersOfChunks

NextChunks ==
  \/ \E ps \in PartSeqs, m \in 0..MaxChunkLimit : SplitFileOk(ps, m)
  \/ \E m \in 0..MaxChunkLimit : SplitFileErr(m)
  \/ PartBlank
  \/ PartLimit
  \/ PartEmbedErr
  \/ PartAddOk
  \/ PartAddErr
  \/ PartsEnd
  \/ PartsCommitOk
  \/ PartsCommitErr

(***************************************************************************)
(* CACHE runs repeated without end against an upstream list that does not  *)
(* change (RunCache, part_013 lines 100-124, called once per invocation of *)
(* the generator).                                                         *)
(***************************************************************************)
\* The upstream lists of at most MaxPR pull requests, newest first.
UpstreamLists ==
  UNION {{[i \in 1..k |-> [num |-> k + 1 - i, merged |-> f[i]]] :
            f \in [1..k -> BOOLEAN]} : k \in 0..MaxPR}

\* A run that fetches and stores all it found.
CacheAgainOk ==
  /\ LET newPRs == fetchNewPRs(upstream, prRows, cfg.GitHubFetchMax)
         rowsAfter == cachePRs(prRows, newPRs, Len(newPRs))
     IN /\ prRows' = rowsAfter
        /\ lastCache' = CacheRun(TRUE, newPRs, rowsAfter)
  /\ UNCHANGED <<upstream, cfg, procPc, procQueue, cur, lastProc, prSteps>>
  /\ UNCHANGED <<stale, batch, othersOfPR>>

\* A run whose FetchBatch or HasPR fails: nothing is stored.
CacheAgainFetchErr ==
  /\ lastCache' = CacheRun(FALSE, <<>>, prRows)
  /\ UNCHANGED <<upstream, prRows, cfg, procPc, procQueue, cur, lastProc,
                 prSteps>>
  /\ UNCHANGED <<stale, batch, othersOfPR>>

\* A run whose k-th StorePR fails: the PRs before it are stored.
CacheAgainStoreErr ==
  /\ LET newPRs == fetchNewPRs(upstream, prRows, cfg.GitHubFetchMax) IN
       \E k \in 1..Len(newPRs) :
         LET rowsAfter == cachePRs(prRows, newPRs, k - 1) IN
           /\ prRows' = rowsAfter
           /\ lastCache' = CacheRun(FALSE, newPRs, rowsAfter)
  /\ UNCHANGED <<upstream, cfg, procPc, procQueue, cur, lastProc, prSteps>>
  /\ UNCHANGED <<stale, batch, othersOfPR>>

NextCacheLive ==
  \/ CacheAgainOk
  \/ CacheAgainFetchErr
  \/ CacheAgainStoreErr

(***************************************************************************)
(* PROCESS runs repeated without end, every UpdatePRProcessing succeeding  *)
(* (RunProcess, part_013 lines 62-108, called once per invocation of the   *)
(* generator).                                                             *)
(***************************************************************************)
ProcessAgain ==
  /\ procPc = "idle"
  /\ LET limit == IF cfg.MaxProcessBatch <= 0 THEN cfg.GitHubFetchMax
                  ELSE cfg.MaxProcessBatch
         prs == IF CountUnprocessedPRs(prRows, cfg.retryFailed) = 0 THEN <<>>
                ELSE GetUnprocessedPRs(prRows, cfg.retryFailed, limit)
     IN /\ procQueue' = prs
        /\ procPc' = IF prs = <<>> THEN "idle" ELSE "embed"
        /\ batch' = [NoBatch EXCEPT !.prs = prs]
  /\ UNCHANGED <<upstream, prRows, cfg, cur, lastCache, lastProc, prSteps>>
  /\ UNCHANGED <<stale, othersOfPR>>

NextProcessLive ==
  \/ ProcessAgain
  \/ ProcEmbedOk
  \/ \E err \in EmbedErrors : ProcEmbedErr(err)
  \/ ProcEmbedEmpty
  \/ ProcAnalyze
  \/ ProcUpdateOk

(***************************************************************************)
(* Analyzer.Analyze (analyzer.go lines 37-104) and fetchConsolidatedDiff   *)
(* (chunk.go lines 158-193).  What git and the LLM answer is the           *)
(* environment of the call.                                                *)
(***************************************************************************)
PRMetadatas == [Number : 0..1, MergeCommitSHA : {<<>>, S("sha")}]

\* enabled and repoPath are cfg.Enabled and cfg.RepoPath.  git is the first
\* of ensurePRFetchSpec, repo.Fetch and MergeDiff that fails, or what
\* MergeDiff returns; diff is what splitDiffIntoFiles, filterGeneratedFiles
\* and buildDocuments make of the diff; llm is the first LLM stage that
\* fails, if any.
AnalyzeEnvs ==
  [enabled : BOOLEAN, repoPath : {<<>>, S("/repo")},
   git : {"spec_err", "fetch_err", "show_err", "blank", "diff"},
   diff : {"no_files", "all_generated", "over_100_docs", "docs"},
   llm : {"ok", "map_deadline", "map_err", "reduce_deadline", "reduce_err"}]

fetchConsolidatedDiff(meta, env) ==
  IF env.repoPath = <<>>
    THEN [diff |-> <<>>, err |-> S("diff analyzer requires repo path")]
  ELSE IF meta.Number = 0
    THEN [diff |-> <<>>, err |-> S("missing PR number")]
  ELSE IF env.git = "spec_err"
    THEN [diff |-> <<>>, err |-> S("configure fetch spec: ") \o S("failed")]
  ELSE IF env.git = "fetch_err"
    THEN [diff |-> <<>>, err |-> S("git fetch origin: ") \o S("failed")]
  ELSE IF meta.MergeCommitSHA # <<>>
    THEN IF env.git = "show_err"
           THEN [diff |-> <<>>, err |-> S("git show failed")]
         ELSE IF env.git = "blank"
           THEN [diff |-> <<>>, err |-> S("empty diff")]
         ELSE [diff |-> S("diff"), err |-> <<>>]
  ELSE [diff |-> <<>>, err |-> S("merged PR with no merge commit available")]

FailedAnalysis(reason, category) ==
  [RichDescription |-> <<>>, AnalysisSuccessful |-> FALSE,
   FailureReason |-> reason, FailureCategory |-> category]

LLMError(stage, deadline) ==
  [msg |-> S(stage) \o S(" stage failed"), deadline |-> deadline]

Analyze(meta, env) ==
  IF ~env.enabled
    THEN FailedAnalysis(S("diff analyzer disabled"), S("disabled"))
  ELSE LET fetched == fetchConsolidatedDiff(meta, env) IN
    IF fetched.err # <<>> THEN FailedAnalysis(fetched.err, <<>>)
    ELSE IF env.diff = "no_files" THEN FailedAnalysis(S("no diff content"), <<>>)
    ELSE IF env.diff = "all_generated"
      THEN FailedAnalysis(S("all files filtered as generated"), <<>>)
    ELSE IF env.diff = "over_100_docs"
      THEN FailedAnalysis(S("large diff detected"), S("large_diff"))
    ELSE IF env.llm \in {"map_deadline", "map_err"}
      THEN LET d == GetFailureDetails(LLMError("map", env.llm = "map_deadline"))
           IN FailedAnalysis(d.reason, d.category)
    ELSE IF env.llm \in {"reduce_deadline", "reduce_err"}
      THEN LET d == GetFailureDetails(
                      LLMError("reduce", env.llm = "reduce_deadline"))
           IN FailedAnalysis(d.reason, d.category)
    ELSE [RichDescription |-> S("## Pull Request Analysis: ") \o S("summary"),
          AnalysisSuccessful |-> TRUE,
          FailureReason |-> <<>>, FailureCategory |-> <<>>]

NoAnalysis ==
  [called |-> FALSE, meta |-> [Number |-> 0, MergeCommitSHA |-> <<>>],
   env |-> [enabled |-> FALSE, repoPath |-> <<>>, git |-> "diff",
            diff |-> "docs", llm |-> "ok"],
   fetched |-> FALSE, result |-> FailedAnalysis(<<>>, <<>>)]

InitAnalyzeVars == lastAnalysis = NoAnalysis

AnalyzeCall(meta, env) ==
  /\ lastAnalysis' =
       [called |-> TRUE, meta |-> meta, env |-> env,
        fetched |-> /\ env.enabled /\ env.repoPath # <<>> /\ meta.Number # 0
                    /\ env.git \notin {"spec_err", "fetch_err"},
        result |-> Analyze(meta, env)]
  /\ UNCHANGED othersOfAnalyze

NextAnalyze == \E meta \in PRMetadatas, env \in AnalyzeEnvs : AnalyzeCall(meta, env)

(***************************************************************************)
(* The worktree of a trace: Tracer.Trace (part_015 lines 157-243) and      *)
(* Tracer.checkoutCommit (lines 274-301).  A git or skopeo command runs to *)
(* its end only under a context that is not cancelled.                     *)
(***************************************************************************)
MaxTraces == 2

NoTraceRun ==
  [dir |-> 0, created |-> FALSE, restored |-> FALSE, gitFails |-> FALSE,
   rmFails |-> FALSE, cancelled |-> FALSE, ret |-> "none"]

InitWorktreeVars ==
  /\ wtPc = "idle"
  /\ wtCtx = "live"
  /\ wtDir = 0
  /\ worktrees = {}
  /\ tmpDirs = {}
  /\ wtLast = NoTraceRun
  /\ wtRuns = 0

\* A command started under context c, which fails of its own if fails.
CommandRuns(c, fails) == c = "live" /\ ~fails

\* Trace returns.
TraceExits(ret) ==
  /\ wtPc' = "returned"
  /\ wtLast' = [wtLast EXCEPT !.ret = ret, !.cancelled = wtCtx = "cancelled"]

\* Trace is called; an environment that is not known returns at once.
TraceBegin(known) ==
  /\ wtPc \in {"idle", "returned"}
  /\ wtRuns < MaxTraces
  /\ wtRuns' = wtRuns + 1
  /\ wtCtx' = "live"
  /\ wtDir' = 0
  /\ IF known
       THEN wtPc' = "ensure" /\ wtLast' = NoTraceRun
       ELSE wtPc' = "returned" /\ wtLast' = [NoTraceRun EXCEPT !.ret = "error"]
  /\ UNCHANGED <<worktrees, tmpDirs>>
  /\ UNCHANGED othersOfWorktree

\* The caller cancels its token while the trace is under way.
TraceCancel ==
  /\ wtPc \notin {"idle", "returned"}
  /\ wtCtx = "live"
  /\ wtCtx' = "cancelled"
  /\ UNCHANGED <<wtPc, wtDir, worktrees, tmpDirs, wtLast, wtRuns>>
  /\ UNCHANGED othersOfWorktree

\* t.ensureRepo(ctx)
TraceEnsureRepo(fails) ==
  /\ wtPc = "ensure"
  /\ IF CommandRuns(wtCtx, fails)
       THEN wtPc' = "checkout" /\ UNCHANGED wtLast
       ELSE TraceExits("result_with_errors")
  /\ UNCHANGED <<wtCtx, wtDir, worktrees, tmpDirs, wtRuns>>
  /\ UNCHANGED othersOfWorktree

\* filepath.Abs fails.
TraceAbsErr ==
  /\ wtPc = "checkout"
  /\ TraceExits("error")
  /\ UNCHANGED <<wtCtx, wtDir, worktrees, tmpDirs, wtRuns>>
  /\ UNCHANGED othersOfWorktree

\* checkoutCommit: `git rev-parse commit`
CheckoutRevParse(fails) ==
  /\ wtPc = "checkout"
  /\ IF CommandRuns(wtCtx, fails)
       THEN wtPc' = "mkdir" /\ UNCHANGED wtLast
       ELSE TraceExits("error")
  /\ UNCHANGED <<wtCtx, wtDir, worktrees, tmpDirs, wtRuns>>
  /\ UNCHANGED othersOfWorktree

\* checkoutCommit: os.MkdirTemp makes a directory of a fresh name.
CheckoutMkdirTemp(fails) ==
  /\ wtPc = "mkdir"
  /\ IF fails
       THEN TraceExits("error") /\ UNCHANGED <<wtDir, tmpDirs>>
       ELSE /\ wtDir' = wtRuns
            /\ tmpDirs' = tmpDirs \cup {wtRuns}
            /\ wtPc' = "add"
            /\ wtLast' = [wtLast EXCEPT !.dir = wtRuns]
  /\ UNCHANGED <<wtCtx, worktrees, wtRuns>>
  /\ UNCHANGED othersOfWorktree

\* cleanup of checkoutCommit: os.RemoveAll(checkoutDir)
cleanup(dirs, dir, rmFails) == IF rmFails THEN dirs ELSE dirs \ {dir}

\* checkoutCommit: WorktreeAddDetach; on an error cleanup() and return.
CheckoutWorktreeAdd(fails, rmFails) ==
  /\ wtPc = "add"
  /\ IF CommandRuns(wtCtx, fails)
       THEN /\ worktrees' = worktrees \cup {wtDir}
            /\ wtLast' = [wtLast EXCEPT !.created = TRUE]
            /\ wtPc' = "config"
            /\ UNCHANGED tmpDirs
       ELSE /\ tmpDirs' = cleanup(tmpDirs, wtDir, rmFails)
            /\ wtPc' = "returned"
            /\ wtLast' = [wtLast EXCEPT !.ret = "error", !.rmFails = rmFails,
                                        !.cancelled = wtCtx = "cancelled"]
            /\ UNCHANGED worktrees
  /\ UNCHANGED <<wtCtx, wtDir, wtRuns>>
  /\ UNCHANGED othersOfWorktree

\* loadEnvironmentConfig reads and parses the file of the checkout; an
\* error returns through the deferred restore.
TraceLoadConfig(fails) ==
  /\ wtPc = "config"
  /\ wtPc' = IF fails THEN "restore" ELSE "inspect"
  /\ wtLast' = [wtLast EXCEPT !.ret = IF fails THEN "result_with_errors"
                                      ELSE @]
  /\ UNCHANGED <<wtCtx, wtDir, worktrees, tmpDirs, wtRuns>>
  /\ UNCHANGED othersOfWorktree

\* The loop over the components: inspectImage runs skopeo under ctx; its
\* errors go into the result.
TraceInspect(fails) ==
  /\ wtPc = "inspect"
  /\ wtPc' = "restore"
  /\ wtLast' = [wtLast EXCEPT !.ret = IF CommandRuns(wtCtx, fails)
                                        THEN "result"
                                        ELSE "result_with_errors"]
  /\ UNCHANGED <<wtCtx, wtDir, worktrees, tmpDirs, wtRuns>>
  /\ UNCHANGED othersOfWorktree

\* A restore that removes the worktree under the caller's context.
restore_m(c, trees, dir, gitFails) ==
  IF CommandRuns(c, gitFails) THEN trees \ {dir} ELSE trees

\* The restore function of checkoutCommit: WorktreeRemove under
\* context.Background(), whatever the caller's context c is.
restore(c, trees, dir, gitFails) ==
  IF CommandRuns("live", gitFails) THEN trees \ {dir} ELSE trees

\* `defer restore()`: git worktree remove --force takes the directory with
\* it, then cleanup().
TraceRestore(gitFails, rmFails) ==
  /\ wtPc = "restore"
  /\ worktrees' = restore(wtCtx, worktrees, wtDir, gitFails)
  /\ tmpDirs' = IF wtDir \notin worktrees' THEN tmpDirs \ {wtDir}
                ELSE cleanup(tmpDirs, wtDir, rmFails)
  /\ wtPc' = "returned"
  /\ wtLast' = [wtLast EXCEPT !.restored = TRUE, !.gitFails = gitFails,
                              !.rmFails = rmFails,
                              !.cancelled = wtCtx = "cancelled"]
  /\ UNCHANGED <<wtCtx, wtDir, wtRuns>>
  /\ UNCHANGED othersOfWorktree

NextWorktree ==
  \/ \E known \in BOOLEAN : TraceBegin(known)
  \/ TraceCancel
  \/ \E fails \in BOOLEAN : TraceEnsureRepo(fails)
  \/ TraceAbsErr
  \/ \E fails \in BOOLEAN : CheckoutRevParse(fails)
  \/ \E fails \in BOOLEAN : CheckoutMkdirTemp(fails)
  \/ \E fails, rmFails \in BOOLEAN : CheckoutWorktreeAdd(fails, rmFails)
  \/ \E fails \in BOOLEAN : TraceLoadConfig(fails)
  \/ \E fails \in BOOLEAN : TraceInspect(fails)
  \/ \E gitFails, rmFails \in BOOLEAN : TraceRestore(gitFails, rmFails)

(***************************************************************************)
(* buildDocuments, splitChunkRecursive and annotateChunk (chunk.go lines   *)
(* 65-140) with the estimator of tokens.go.  A text is its length in       *)
(* characters; contents are taken without surrounding white space.         *)
(***************************************************************************)
MaxContentLen == 24
MaxPathLen == 2
approxCharsPerToken == 4

\* defaultEstimateTokens without an encoder: maxInt(1, len(text)/4).
estimateTokens(len) ==
  IF len \div approxCharsPerToken > 1 THEN len \div approxCharsPerToken ELSE 1

\* `chunkSize * 3 / 4` of buildDocuments, chunkSize 4096 when not set.
targetTokensOf(maxContextTokens) ==
  ((IF maxContextTokens = 0 THEN 4096 ELSE maxContextTokens) * 3) \div 4

\* The recursive character splitter with chunk size `size`: pieces of at
\* most size characters, in text order.
SplitText(len, size) ==
  LET n == (len + size - 1) \div size
  IN [i \in 1..n |-> IF i < n THEN size ELSE len - (n - 1) * size]

Digits(n) == IF n < 10 THEN 1 ELSE 2

\* The length of annotateChunk's result: "File: <path>\n", for a split
\* file also "Chunk: <index+1>/<total>\n", then the content.
annotateChunk(content, path, index, total) ==
  (6 + path + 1)
  + (IF total > 1 THEN 7 + Digits(index + 1) + 1 + Digits(total) + 1 ELSE 0)
  + content

\* The TokenCount of the documents splitChunkRecursive emits for one file.
splitChunkRecursive(content, path, targetTokens) ==
  LET chunks == IF estimateTokens(content) <= targetTokens THEN <<content>>
                ELSE SplitText(content, targetTokens * approxCharsPerToken)
  IN [idx \in 1..Len(chunks) |->
        estimateTokens(annotateChunk(chunks[idx], path, idx - 1, Len(chunks)))]

NoBuild == [maxContextTokens |-> 0, content |-> 0, path |-> 0, tokenCounts |-> <<>>]

InitDocumentVars == lastBuild = NoBuild

\* buildDocuments for one file chunk.
buildDocuments(maxContextTokens, content, path) ==
  /\ lastBuild' =
       [maxContextTokens |-> maxContextTokens, content |-> content,
        path |-> path,
        tokenCounts |-> splitChunkRecursive(content, path,
                                            targetTokensOf(maxContextTokens))]
  /\ UNCHANGED othersOfDocuments

NextDocuments ==
  \E m \in {0, 4, 8}, content \in 1..MaxContentLen, path \in 1..MaxPathLen :
     buildDocuments(m, content, path)

(***************************************************************************)
(* dbctl: recreateCmd and recreateScope (cmd/dbctl/main.go lines 116-139   *)
(* and 176-194), EnsureCurrent (part_005 lines 13-52) and the migration    *)
(* manager (internal/db/migrate/manager.go).                               *)
(***************************************************************************)
Tables == {"pr_embeddings", "processing_state", "documents", "trace_image_cache"}

\* The migrations of the directory in their order, each with the tables
\* its CREATE TABLE IF NOT EXISTS statements make.
Migrations ==
  <<{"pr_embeddings", "processing_state"}, {"documents"}, {"trace_image_cache"}>>

Scopes == {"all", "prs", "docs"}

\* The tables named by the DROP TABLE IF EXISTS ... CASCADE of a scope.
DroppedBy(scope) ==
  IF scope = "all" THEN {"documents", "pr_embeddings", "processing_state"}
  ELSE IF scope = "prs" THEN {"pr_embeddings", "processing_state"}
  ELSE {"documents"}

NoDbctl == [cmd |-> "none", scope |-> "none", ok |-> FALSE, migrated |-> FALSE]

InitDbctlVars ==
  /\ dbTables = [t \in Tables |-> "absent"]
  /\ dbApplied = {}
  /\ dbLast = NoDbctl

\* Every migration of the directory is in the set.
Migrated(recorded) == recorded = DOMAIN Migrations

\* Manager.MigrateUp: the pending migrations run in order and are recorded.
MigrateUp(tables, recorded) ==
  LET made == UNION {Migrations[m] : m \in DOMAIN Migrations \ recorded}
  IN [t \in Tables |-> IF t \in made /\ tables[t] = "absent" THEN "empty"
                       ELSE tables[t]]

\* EnsureCurrent with autoMigrate: nothing to do when no migration is
\* pending, else MigrateUp.
EnsureCurrent(tables, recorded) ==
  IF DOMAIN Migrations \ recorded = {} THEN tables
  ELSE MigrateUp(tables, recorded)

\* `dbctl migrate up`
MigrateUpCmd ==
  /\ dbTables' = MigrateUp(dbTables, dbApplied)
  /\ dbApplied' = DOMAIN Migrations
  /\ dbLast' = [cmd |-> "migrate_up", scope |-> "none", ok |-> TRUE,
                migrated |-> Migrated(dbApplied)]
  /\ UNCHANGED othersOfDbctl

\* An ingestion writes rows into a table that exists.
InsertRows(t) ==
  /\ dbTables[t] # "absent"
  /\ dbTables' = [dbTables EXCEPT ![t] = "rows"]
  /\ dbLast' = [NoDbctl EXCEPT !.cmd = "insert"]
  /\ UNCHANGED dbApplied
  /\ UNCHANGED othersOfDbctl

\* `dbctl recreate <scope>`: refused without DB_ALLOW_DESTRUCTIVE=yes; else
\* recreateScope drops the tables of the scope and calls EnsureCurrent.
RecreateCmd(scope, allow, dropFails) ==
  /\ IF ~allow \/ dropFails
       THEN /\ UNCHANGED <<dbTables, dbApplied>>
            /\ dbLast' = [cmd |-> "recreate", scope |-> scope, ok |-> FALSE,
                          migrated |-> Migrated(dbApplied)]
       ELSE LET dropped == [t \in Tables |-> IF t \in DroppedBy(scope)
                                               THEN "absent" ELSE dbTables[t]]
            IN /\ dbTables' = EnsureCurrent(dropped, dbApplied)
               /\ dbApplied' = DOMAIN Migrations
               /\ dbLast' = [cmd |-> "recreate", scope |-> scope, ok |-> TRUE,
                             migrated |-> Migrated(dbApplied)]
  /\ UNCHANGED othersOfDbctl

NextDbctl ==
  \/ MigrateUpCmd
  \/ \E t \in Tables : InsertRows(t)
  \/ \E scope \in Scopes, allow, dropFails \in BOOLEAN :
       RecreateCmd(scope, allow, dropFails)

(***************************************************************************)
(* Specifications.                                                         *)
(***************************************************************************)
Init ==
  /\ InitDocsVars /\ InitPRVars /\ InitTraceVars /\ InitWriterVars
  /\ InitFetchSpecVars /\ InitGitVars /\ InitSearchVars
  /\ InitChunkVars /\ InitAnalyzeVars /\ InitWorktreeVars /\ InitDocumentVars /\ InitDbctlVars

\* The generator with nothing to fetch or process, the cache switched off.
IdleCfg ==
  [GitHubFetchMax |-> 0, MaxProcessBatch |-> 0, retryFailed |-> FALSE,
   DiffEnabled |-> FALSE]

\* The clone of the diff analyzer as a fresh process finds it.
FreshClone == originFetch = 0

InitForDocs == Init /\ TraceCacheMax = 0 /\ cfg = IdleCfg /\ FreshClone
InitForPR == Init /\ TraceCacheMax = 0 /\ FreshClone
InitForTrace == Init /\ cfg = IdleCfg /\ FreshClone
InitForFetchSpec == Init /\ TraceCacheMax = 0 /\ cfg = IdleCfg
InitForGit == InitForDocs

SpecDocs == InitForDocs /\ [][NextDocs]_vars

SpecPR == InitForPR /\ [][NextPR]_vars

SpecTrace == InitForTrace /\ [][NextTrace]_vars

InitForCacheRace == InitForPR /\ ~cfg.DiffEnabled

SpecCacheRace == InitForCacheRace /\ [][NextCacheRace]_vars

\* PROCESS runs over a store that earlier CACHE runs have filled: the k
\* newest merged PRs are cached and none is processed yet.
InitForBatch ==
  /\ InitDocsVars
  /\ InitTraceVars
  /\ InitWriterVars
  /\ InitFetchSpecVars /\ FreshClone
  /\ InitGitVars /\ InitSearchVars
  /\ InitChunkVars /\ InitAnalyzeVars /\ InitWorktreeVars /\ InitDocumentVars /\ InitDbctlVars
  /\ TraceCacheMax = 0
  /\ \E k \in 0..MaxPR :
       /\ upstream = [i \in 1..k |-> [num |-> k + 1 - i, merged |-> TRUE]]
       /\ prRows = cachePRs(<<>>, [i \in 1..k |-> i], k)
  /\ cfg \in [GitHubFetchMax : 0..MaxFetchMax, MaxProcessBatch : 0..MaxBatch,
              retryFailed : BOOLEAN, DiffEnabled : BOOLEAN]
  /\ procPc = "idle"
  /\ procQueue = <<>>
  /\ cur = NoCur
  /\ lastCache = NoCacheRun
  /\ lastProc = NoProc
  /\ stale = NoStale
  /\ batch = NoBatch
  /\ prSteps = 0

NextBatch ==
  \/ RunProcess
  \/ RunProcessErr
  \/ ProcEmbedOk
  \/ \E err \in EmbedErrors : ProcEmbedErr(err)
  \/ ProcEmbedEmpty
  \/ ProcAnalyze
  \/ ProcUpdateOk
  \/ ProcUpdateErr

SpecBatch == InitForBatch /\ [][NextBatch]_vars

SpecWriter == InitForDocs /\ [][NextWriter]_vars

SpecFetchSpec == InitForFetchSpec /\ [][NextFetchSpec]_vars

SpecGit == InitForGit /\ [][NextGit]_vars

\* An empty store in front of any upstream list.
InitForCacheLive ==
  /\ InitDocsVars
  /\ InitTraceVars
  /\ InitWriterVars
  /\ InitFetchSpecVars /\ FreshClone
  /\ InitGitVars /\ InitSearchVars
  /\ InitChunkVars /\ InitAnalyzeVars /\ InitWorktreeVars /\ InitDocumentVars /\ InitDbctlVars
  /\ TraceCacheMax = 0
  /\ upstream \in UpstreamLists
  /\ prRows = <<>>
  /\ cfg \in [GitHubFetchMax : 0..MaxFetchMax, MaxProcessBatch : 0..MaxBatch,
              retryFailed : BOOLEAN, DiffEnabled : BOOLEAN]
  /\ procPc = "idle"
  /\ procQueue = <<>>
  /\ cur = NoCur
  /\ lastCache = NoCacheRun
  /\ lastProc = NoProc
  /\ stale = NoStale
  /\ batch = NoBatch
  /\ prSteps = 0

\* The generator is started again and again, and neither the fetch nor the
\* store fails for ever: a run that succeeds is taken whenever it would
\* change something.
SpecCacheLive ==
  InitForCacheLive /\ [][NextCacheLive]_vars /\ WF_vars(CacheAgainOk)

\* The generator is started again and again and each run goes on to its
\* end.
SpecProcessLive ==
  InitForBatch /\ [][NextProcessLive]_vars /\ WF_vars(NextProcessLive)

SpecAnalyze == InitForDocs /\ [][NextAnalyze]_vars

SpecWorktree == InitForDocs /\ [][NextWorktree]_vars

SpecDocuments == InitForDocs /\ [][NextDocuments]_vars

SpecDbctl == InitForDocs /\ [][NextDbctl]_vars

SpecSearch == InitForDocs /\ [][NextSearch]_vars

SpecDetails == InitForDocs /\ [][NextDetails]_vars

SpecChunks == InitForDocs /\ [][NextChunks]_vars

Next ==
  \/ NextDocs \/ NextPR \/ NextTrace \/ NextWriter \/ NextFetchSpec
  \/ NextGit \/ NextSearch \/ NextDetails \/ NextChunks
  \/ NextCacheLive \/ NextProcessLive \/ NextAnalyze \/ NextWorktree
  \/ NextDocuments \/ NextDbctl

Spec == Init /\ [][Next]_vars

(***************************************************************************)
(* Claims about documentation ingestion.                                   *)
(***************************************************************************)

\* The chunk sets a repository may hold if every ingestion replaces the
\* previous set as a whole: the initial one, or exactly what one committed
\* writer had staged.
Generations(r) ==
  {{d \in InitDocs : d.repo = r}} \cup
  {g.docs : g \in {a \in applied : a.repo = r}}

\* C1: a SearchDocs query that runs while a Commit for repository R is in
\* progress returns for R either exactly the chunks of the previous
\* generation or exactly the staged chunks of one writer, never a mixture
\* and never the in-between state with the old rows gone and the new ones
\* not yet there.
C1_SearchSeesNoMixture ==
  lastSearch.during # {} => lastSearch.result \in Generations(lastSearch.repo)

\* C2: when the transaction of a writer for repository R commits, the rows
\* with repo = R are exactly the chunks staged through that writer and the
\* rows of every other repository are the same as before.
C2_CommitReplacesExactly ==
  [][\A w \in Writers :
       (txState[w] # "committed" /\ txState'[w] = "committed") =>
          /\ {d \in documents' : d.repo = wRepo[w]} = staged[w]
          /\ {d \in documents' : d.repo # wRepo[w]}
               = {d \in documents : d.repo # wRepo[w]}]_vars

\* C3: an ingestion in which a step failed (listing, reading a file,
\* embedding a chunk, Add, or Commit) never commits its transaction, so the
\* rows stored before it are left as they were.
C3_FailureLeavesPriorRows ==
  \A w \in Writers : failed[w] => txState[w] # "committed"

\* C4: once no ingestion of a repository is running, the rows stored for it
\* are the staged set of a single ingestion (or the initial set), also when
\* two ingestions of it overlapped.
Running(r) == {w \in Writers : wRepo[w] = r /\ pc[w] \notin {"idle", "done"}}

C4_SameRepoSerialized ==
  \A r \in Repos : Running(r) = {} => DocsOf(r) \in Generations(r)

(***************************************************************************)
(* Claims about PR ingestion.                                              *)
(***************************************************************************)

\* C5: every PR row whose processed_at is set has a non-null embedding, or
\* has analysis_successful = false together with a non-null failure_reason.
C5_ProcessedRowsAccounted ==
  \A n \in DOMAIN prRows :
    prRows[n].processed_at # NULL =>
      \/ prRows[n].embedding # NULL
      \/ /\ prRows[n].analysis_successful = FALSE
         /\ prRows[n].failure_reason # NULL

\* A processed row without an embedding that carries its failure reason,
\* next to a processed row with one, under retry-failed.
C5_Witness ==
  /\ cfg.retryFailed
  /\ \E n \in DOMAIN prRows :
       /\ prRows[n].processed_at # NULL
       /\ prRows[n].embedding = NULL
       /\ prRows[n].failure_reason # NULL
  /\ \E n \in DOMAIN prRows :
       prRows[n].processed_at # NULL /\ prRows[n].embedding # NULL

\* C6: when PROCESS handles a PR, diff analysis runs before the embedding is
\* computed, and whenever the analysis succeeded the embedded text is built
\* from the title, the body and the rich description of that analysis.
C6_AnalysisBeforeEmbedding ==
  /\ \A i, j \in 1..Len(lastProc.calls) :
       (lastProc.calls[i] = "embed" /\ lastProc.calls[j] = "analyze") => j < i
  /\ (procPc = "update" /\ cur.analysisSuccessful /\ cur.richDescription # NULL)
       => lastProc.document =
            Ptr(BuildDocument(prRows[CurPR].pr_title, prRows[CurPR].pr_body,
                              cur.richDescription[1]))

\* C10: a CACHE run that follows a successful CACHE run with the upstream PR
\* list unchanged inserts no row, whatever github_fetch_max is and whether or
\* not the earlier run was cut short by the cap.
C10_RerunInsertsNothing ==
  lastCache.again => lastCache.inserted = {}

\* A re-run after a run that the cap cut short, with something stored.
C10_Witness ==
  /\ lastCache.again
  /\ lastCache.ok
  /\ lastCache.prevCapped
  /\ cfg.GitHubFetchMax > 0
  /\ DOMAIN prRows # {}

\* The merged PRs of a listing, in listing order.
MergedOf(up) ==
  LET merged == SelectSeq(up, LAMBDA e : e.merged)
  IN [i \in 1..Len(merged) |-> merged[i].num]

\* The pages a listing has (an empty listing is one empty page).
PagesOf(up) ==
  IF up = <<>> THEN 1 ELSE (Len(up) + PerPage - 1) \div PerPage

\* C11: a CACHE scan fetches no more pages than the listing has and collects
\* at most github_fetch_max PRs, all new and in listing order; it ends at
\* the first PR already stored, at the cap, on an empty page or when there
\* is no next page.
C11_ScanStops ==
  lastCache.stop # "none" =>
    LET merged == MergedOf(lastCache.upstream)
        found == lastCache.found
    IN /\ lastCache.pages <= PagesOf(lastCache.upstream)
       /\ Len(found) <= cfg.GitHubFetchMax
       /\ Len(found) <= Len(merged)
       /\ found = SubSeq(merged, 1, Len(found))
       /\ \A i \in 1..Len(found) : found[i] \notin lastCache.before
       /\ lastCache.stop \in {"cached", "cap", "empty", "nomore"}
       /\ lastCache.stop = "cached" =>
            /\ Len(found) < Len(merged)
            /\ merged[Len(found) + 1] \in lastCache.before
       /\ lastCache.stop = "cap" => Len(found) = cfg.GitHubFetchMax
       /\ lastCache.stop = "empty" => lastCache.upstream = <<>>
       /\ lastCache.stop = "nomore" => found = merged

\* A scan that went to the second page and ended there at a stored PR.
C11_Witness ==
  /\ lastCache.stop = "cached"
  /\ lastCache.pages >= 2

\* StorePR applied twice equals StorePR applied once, and StorePR for a
\* stored pr_number returns the store as it is.
StorePRIdempotent ==
  \A n \in 1..MaxPR :
    LET once == StorePR(prRows, PREmbedding(n)) IN
      /\ StorePR(once, PREmbedding(n)) = once
      /\ n \in DOMAIN prRows => once = prRows

\* A step keeps every stored row; a step of a CACHE run leaves each as it
\* is, and no step takes processed_at away.
RowsKept ==
  \A n \in DOMAIN prRows :
    /\ n \in DOMAIN prRows'
    /\ (lastCache' # lastCache \/ stale' # stale) => prRows'[n] = prRows[n]
    /\ prRows[n].processed_at # NULL => prRows'[n].processed_at # NULL

\* C12: StorePR for a pr_number that is already stored changes nothing,
\* twice equals once, and no CACHE run puts a processed row back into the
\* unprocessed state.
C12_StorePRKeepsRows ==
  []StorePRIdempotent /\ [][RowsKept]_vars

\* An overlapping CACHE run has called StorePR for a PR that was stored and
\* processed in the meantime.
C12_Witness ==
  /\ stale.state = "stored"
  /\ \E n \in stale.hit :
       prRows[n].processed_at # NULL /\ prRows[n].embedding # NULL

\* C13: with the diff analyzer disabled, a PR that PROCESS has handled and
\* embedded has its embedding stored, analysis_successful = false and
\* failure_category = "disabled".
C13_DisabledIsRecorded ==
  ~cfg.DiffEnabled =>
    \A n \in DOMAIN prRows :
      (prRows[n].processed_at # NULL /\ prRows[n].embedding # NULL) =>
        /\ prRows[n].analysis_successful = FALSE
        /\ prRows[n].failure_category = Ptr(S("disabled"))

\* The failure categories of an embedding failure.
EmbeddingFailureCategories ==
  {Ptr(S("timeout")), Ptr(S("error")), Ptr(S("empty_embedding"))}

\* A row marked as processed after its embedding failed.
MarkedEmbeddingFailure(row) ==
  /\ row.embedding = NULL
  /\ row.processed_at # NULL
  /\ row.analysis_successful = FALSE
  /\ row.failure_category \in EmbeddingFailureCategories

\* The store update after a failed embedding call marks the row.
EmbeddingFailureStep ==
  (/\ procPc = "update" /\ cur.embedding = NULL
   /\ lastProc'.calls = Append(lastProc.calls, "update")
   /\ prRows' # prRows)
    => /\ MarkedEmbeddingFailure(prRows'[CurPR])
       /\ \A n \in DOMAIN prRows \ {CurPR} : prRows'[n] = prRows[n]

\* C14: when the embedding call for a PR fails or returns no vector, the row
\* is written with embedding null, processed_at set, analysis_successful =
\* false and failure_category one of timeout, error, empty_embedding; no
\* processed row without an embedding looks otherwise.
C14_EmbeddingFailureMarked ==
  /\ [](\A n \in DOMAIN prRows :
          (prRows[n].processed_at # NULL /\ prRows[n].embedding = NULL)
            => MarkedEmbeddingFailure(prRows[n]))
  /\ [][EmbeddingFailureStep]_vars

\* Rows marked after a timed-out embedding call, or after an empty answer.
C14_Witness ==
  \E n \in DOMAIN prRows :
    /\ MarkedEmbeddingFailure(prRows[n])
    /\ prRows[n].failure_category \in {Ptr(S("timeout")), Ptr(S("empty_embedding"))}
    /\ lastProc.pr = n
    /\ lastProc.calls = <<"embed", "update">>

\* The PRs of the running batch that the loop has not reached yet.
RestOfBatch ==
  SubSeq(batch.prs, Len(batch.attempted) + 1, Len(batch.prs))

\* C15: within one PROCESS run a failure while handling a PR (embedding, diff
\* analysis or store update) does not stop the run: the PRs are attempted one
\* at a time in the order the store returned them, the loop always holds
\* exactly the PRs not yet attempted, and the run ends only when every PR of
\* the batch has been attempted.
C15_RunAttemptsWholeBatch ==
  /\ batch.attempted = SubSeq(batch.prs, 1, Len(batch.attempted))
  /\ batch.failed \subseteq {batch.prs[i] : i \in 1..Len(batch.prs)}
  /\ procPc = "idle" => batch.attempted = batch.prs /\ procQueue = <<>>
  /\ procPc = "embed" => procQueue = RestOfBatch
  /\ procPc \in {"analyze", "update"} =>
       /\ batch.attempted # <<>>
       /\ procQueue = <<batch.attempted[Len(batch.attempted)]>> \o RestOfBatch

\* A finished run whose first PR failed and whose later PRs were attempted
\* all the same.
C15_Witness ==
  /\ procPc = "idle"
  /\ Len(batch.prs) >= 2
  /\ batch.prs[1] \in batch.failed
  /\ batch.attempted = batch.prs
  /\ batch.prs = GetUnprocessedPRs(cachePRs(<<>>, [i \in 1..Len(batch.prs) |-> i], Len(batch.prs)), FALSE, 0)

\* The errors with which the writer's state machine refuses a call.
RefusalErrors ==
  {Ptr("cannot add after commit"), Ptr("cannot add after rollback"),
   Ptr("already committed"), Ptr("already rolled back")}

\* The latest call was made in a state that does not allow it.
RefusedCall ==
  \/ bwCall.before = "committed" /\ bwCall.op \in {"Add", "Commit", "Rollback"}
  \/ bwCall.before = "rolled_back" /\ bwCall.op \in {"Add", "Commit"}

\* A writer that has left the open state stays where it is, and the stored
\* chunks stay as they are.
WriterStaysEnded ==
  (bw'.id = bw.id /\ WriterState(bw) # "open") =>
     WriterState(bw') = WriterState(bw) /\ documents' = documents

\* C16: a batch writer is in exactly one of the states open, committed and
\* rolled_back; once committed, Add, Commit and Rollback return an explicit
\* error, once rolled back, Add and Commit do; no refused call changes the
\* stored chunks, and the writer never leaves the state it ended in.
C16_WriterStateMachine ==
  /\ [](~(bw.committed /\ bw.rolledBack))
  /\ [](RefusedCall => bwCall.err \in RefusalErrors /\ ~bwCall.changed)
  /\ [][WriterStaysEnded]_vars

\* Rollback was refused on a writer whose Commit had replaced the chunks of
\* its repository.
C16_Witness ==
  /\ bwCall.op = "Rollback"
  /\ bwCall.before = "committed"
  /\ bwCall.err = Ptr("already committed")
  /\ bw.id = bwCall.id
  /\ DocsOf(bw.repo) # {d \in InitDocs : d.repo = bw.repo}

\* search_prs can return a row: SearchPRs selects `embedding IS NOT NULL`.
Searchable(rows) == {n \in DOMAIN rows : rows[n].embedding # NULL}

\* C23: re-processing a processed PR in retry-failed mode never replaces a
\* stored embedding with NULL: a PR that search_prs could return stays one
\* that it can return.
C23_RetryKeepsEmbedding ==
  [][Searchable(prRows) \subseteq Searchable(prRows')]_vars

\* Every merged pull request of the upstream list has a row.
AllMergedStored ==
  \A i \in 1..Len(upstream) :
     upstream[i].merged => HasPR(prRows, upstream[i].num)

\* C24: under repeated CACHE runs against an unchanged upstream list (and a
\* fetch limit of at least one) every merged PR that upstream lists is
\* eventually stored, the older ones a capped or half-stored run left out
\* included.
C24_EveryMergedPREventuallyStored ==
  cfg.GitHubFetchMax >= 1 => <>[]AllMergedStored

\* No row is left with processed_at NULL.
AllProcessed == \A n \in DOMAIN prRows : prRows[n].processed_at # NULL

\* C25: with retry-failed on and store updates succeeding, repeated PROCESS
\* runs eventually process every row whose processed_at is NULL, even when
\* rows merged later fail on every attempt.
C25_EveryRowEventuallyProcessed == cfg.retryFailed => <>AllProcessed

(***************************************************************************)
(* Claims about the trace cache.                                           *)
(***************************************************************************)

\* A response with a top-level error or a component error.
Erroneous(resp) ==
  \/ resp.Errors # <<>>
  \/ \E i \in 1..Len(resp.Components) : resp.Components[i].Error # NULL

\* The last call traced, returned a response without errors and no error.
CleanCall ==
  /\ lastCall.traced
  /\ ~lastCall.err
  /\ lastCall.resp # NULL
  /\ ~Erroneous(lastCall.resp[1])

\* C7: no cache entry has a top-level error or a component with an error;
\* a traced result with errors is returned without a cache write.
C7_CacheHoldsCleanTraces ==
  /\ \A k \in DOMAIN traceCache : ~Erroneous(traceCache[k].Response)
  /\ (lastCall.traced /\ lastCall.resp # NULL /\ Erroneous(lastCall.resp[1]))
       => ~lastCall.upsert

\* A trace with errors was returned while the cache holds an entry.
C7_Witness ==
  /\ lastCall.traced
  /\ lastCall.resp # NULL
  /\ Erroneous(lastCall.resp[1])
  /\ DOMAIN traceCache # {}

\* A call that is answered from the cache: the stored response, no trace
\* started, the cache as it was.
HitStep ==
  (lastCall'.hit /\ lastCall' # lastCall) =>
     /\ lastCall'.key \in DOMAIN traceCache
     /\ lastCall'.resp = Ptr(traceCache[lastCall'.key].Response)
     /\ traceCache' = traceCache
     /\ pending' = pending

\* A call starts the tracer for the key of the clean call before it.
Retrace ==
  /\ CleanCall
  /\ lastCall.key \in Keys
  /\ pending'[lastCall.key] > pending[lastCall.key]

C9_AtMostMaxRows ==
  lastCall.upsert => Cardinality(DOMAIN traceCache) <= TraceCacheMax

\* C17: a TraceImages call with an environment that is not a known one
\* returns, without failing, a result that carries a top-level error, and
\* writes nothing to the cache.
C17_UnknownEnvironmentAnswered ==
  (lastCall.traced /\ lastCall.key[2] \notin environmentConfigSources) =>
     /\ ~lastCall.err
     /\ lastCall.resp # NULL
     /\ lastCall.resp[1].Errors # <<>>
     /\ ~lastCall.upsert

(***************************************************************************)
(* Claims about the diff analyzer's git setup.                             *)
(***************************************************************************)

\* C18: ensurePRFetchSpec adds the PR fetch specification only if it is
\* missing and at most once however many callers race, and every call that
\* has returned without error, also one made after a failed attempt, has
\* left the specification present.
C18_FetchSpecPresentAfterNil ==
  /\ originFetch <= 1
  /\ \A c \in EnsCallers : ensRet[c] = "nil" => originFetch > 0

\* The error "git <args>: command timed out after 2m0s".
TimedOutError ==
  Ptr([cmd |-> "git",
       cause |-> [text |-> "command timed out after", arg |-> Timeout]])

\* The latest Runner.Git call has returned.
GitReturned == gitRet.kind \in {"ok", "error"}

C20_BlankQueryEmptyList ==
  (lastTool.tool # "none" /\ TrimSpace(lastTool.query) = <<>>) =>
     /\ lastTool.result.kind = "list"
     /\ lastTool.result.items = <<>>
     /\ ~lastTool.result.embedded

\* C21: get_pr_details called with a pr_number of zero or less, in whatever
\* numeric form it arrives, returns the tool error "pr_number must be
\* positive" and looks nothing up in the store.
C21_NotPositiveRefused ==
  (lastDetails.kind # "none" /\ NotPositive(lastDetails.arg)) =>
     /\ lastDetails.kind = "tool_error"
     /\ lastDetails.msg = "pr_number must be positive"
     /\ ~lastDetails.lookup

(***************************************************************************)
(* Claims about the chunks of one file.                                    *)
(***************************************************************************)

Contiguous(seq) == seq = [i \in 1..Len(seq) |-> i - 1]

\* C22: the chunks stored for a file at one commit carry chunk_index 0, 1,
\* 2, ... in text order with no gaps, whatever pieces were blank, failed to
\* embed or were cut off by max_chunks.
C22_ChunkIndexContiguous == partPc = "stored" => Contiguous(fileChunks)

(***************************************************************************)
(* Claims about a batch writer whose Commit failed.                        *)
(***************************************************************************)

\* Commit returned an error on the writer: its transaction is finished and
\* neither flag is set.
CommitFailed(w) == w.id > 0 /\ w.tx = "done" /\ ~w.committed /\ ~w.rolledBack

\* An Add or a Commit on a writer whose Commit failed is refused by the
\* writer itself, before any statement goes to the transaction.
RefusedAfterFailedCommit ==
  (/\ CommitFailed(bw)
   /\ bw'.id = bw.id
   /\ bwCalls' = bwCalls + 1
   /\ bwCall'.op \in {"Add", "Commit"}) => bwCall'.err \in RefusalErrors

\* C26: after Commit returned an error the writer is in a terminal state:
\* a later Add or Commit is rejected with a state error and no statement is
\* issued on the finished transaction.
C26_FailedCommitIsTerminal == [][RefusedAfterFailedCommit]_vars

(***************************************************************************)
(* Claims about the diff analyzer.                                         *)
(***************************************************************************)

FailureCategories ==
  {S("large_diff"), S("timeout"), S("error"), S("disabled"),
   S("empty_embedding")}

\* The latest analysis failed.
AnalysisFailed == lastAnalysis.called /\ ~lastAnalysis.result.AnalysisSuccessful

\* The latest analysis got as far as looking for the merge commit and the
\* PR has none.
NoMergeCommit ==
  /\ lastAnalysis.called /\ lastAnalysis.fetched
  /\ lastAnalysis.meta.MergeCommitSHA = <<>>

\* C27: every failed analysis carries a non-empty failure reason and a
\* failure category of the fixed set; a merged PR without a merge commit
\* fails with category error.
C27_FailedAnalysisClassified ==
  /\ AnalysisFailed =>
       /\ lastAnalysis.result.FailureReason # <<>>
       /\ lastAnalysis.result.FailureCategory \in FailureCategories
  /\ NoMergeCommit =>
       /\ AnalysisFailed
       /\ lastAnalysis.result.FailureCategory = S("error")

(***************************************************************************)
(* Claims about the worktree of a trace.                                   *)
(***************************************************************************)

\* Trace has returned after it had created a worktree.
ReturnedWithWorktree == wtPc = "returned" /\ wtLast.created

C29_DocumentsWithinTarget ==
  \A i \in 1..Len(lastBuild.tokenCounts) :
     lastBuild.tokenCounts[i] <= targetTokensOf(lastBuild.maxContextTokens)

(***************************************************************************)
(* Claims about dbctl.                                                     *)
(***************************************************************************)

\* The latest command was a recreate that ended without an error, on a
\* database whose migrations had all been applied.
RecreatedMigrated ==
  dbLast.cmd = "recreate" /\ dbLast.ok /\ dbLast.migrated

\* C30: after a successful `dbctl recreate <scope>` on a database whose
\* migrations were already applied every table of the scope exists again
\* and is empty.
C30_RecreateRestoresTables ==
  RecreatedMigrated =>
     \A t \in DroppedBy(dbLast.scope) : dbTables[t] = "empty"

====
